---------------------------- MODULE Spec2Model ----------------------------
(***************************************************************************)
(* Content-addressed compression pipeline of gravity: the compression      *)
(* worker (internal/worker: Worker, Processor), the shared S3 bucket with  *)
(* its blobs/ and indexes/ namespaces, and the reconstruction tool         *)
(* (cmd/reconstruct); with them the ingest HTTP server (internal/ingest):  *)
(* its span filter, its converter and its routes.                          *)
(*                                                                         *)
(* Text is a sequence of bytes (numbers): 10 is "\n", 32 is " ", 124 is    *)
(* "|", 97 is "a", 98 is "b".  Every S3 round trip (ListObjectsV2,         *)
(* GetObject, HeadObject, PutObject) is one action, so that the workers    *)
(* and the reconstruction tool interleave exactly at their I/O calls.      *)
(***************************************************************************)
EXTENDS Integers, Sequences, FiniteSets, TLC

(***************************************************************************)
(* Bounds of the model.                                                    *)
(***************************************************************************)
\* polls (ticker firings, the immediate first poll included) per worker process
MaxPolls == 2
\* worker restarts in total (a restart loses the in-memory processedFiles)
MaxRestarts == 1
\* I/O calls that fail, in total
MaxFailures == 1
\* reconstruction requests (runs of cmd/reconstruct)
MaxReconstructs == 1
\* longest content string handed to a pure function on its own
MaxLen == 4
\* most spans in a payload handed to the extractor on its own
MaxSpans == 2
\* width in bytes of the stand-in for the 32-byte BLAKE3 digest
DigestSize == 4

Workers == {"w1", "w2"}

(***************************************************************************)
(* Configuration (LoadConfig): the environment a deployment runs with.     *)
(***************************************************************************)
DefaultConfig ==
    [ChunkSeparator |-> <<10>>, BlobsPath |-> "blobs/", IndexesPath |-> "indexes/"]

Configs ==
    { DefaultConfig,
      [DefaultConfig EXCEPT !.ChunkSeparator = <<124>>],
      [DefaultConfig EXCEPT !.BlobsPath = "chunks/", !.IndexesPath = "idx/"] }

\* with the reconstruction tool in the picture: BLOBS_PATH alone is set too
ReconstructConfigs == Configs \cup { [DefaultConfig EXCEPT !.BlobsPath = "chunks/"] }

(***************************************************************************)
(* The raw-spans/ payload files, as ParseOTLPFile returns them: the spans  *)
(* with non-empty content, in payload order.                               *)
(***************************************************************************)
Listing == <<"f1", "f2">>

Extracted(file) ==
    IF file = "f1"
    THEN << [TraceID |-> "T1", SpanID |-> "S1", Content |-> <<97, 10, 10, 98>>],
            [TraceID |-> "T1", SpanID |-> "S2", Content |-> <<98, 124, 10, 97>>],
            [TraceID |-> "T2", SpanID |-> "S3", Content |-> <<10, 32>>] >>
    ELSE << [TraceID |-> "T3", SpanID |-> "S4", Content |-> <<97, 10, 97>>] >>

Files == {"f1", "f2"}

AllSpans == UNION { { Extracted(f)[i] : i \in 1..Len(Extracted(f)) } : f \in Files }

TraceIDs == {"T1", "T2", "T3", "T9"}

(***************************************************************************)
(* Pure helpers of the worker.                                             *)
(***************************************************************************)
\* unicode.IsSpace on the bytes of the model
IsSpace(b) == b \in {9, 10, 11, 12, 13, 32}

RECURSIVE TrimLeft(_)
TrimLeft(s) ==
    IF s # <<>> /\ IsSpace(Head(s)) THEN TrimLeft(Tail(s)) ELSE s

RECURSIVE TrimRight(_)
TrimRight(s) ==
    IF s # <<>> /\ IsSpace(s[Len(s)]) THEN TrimRight(SubSeq(s, 1, Len(s) - 1)) ELSE s

TrimSpace(s) == TrimRight(TrimLeft(s))

\* strings.Index: position of the first occurrence of sep in s, 0 when none
Index(s, sep) ==
    LET hits == { i \in 1..(Len(s) - Len(sep) + 1) : SubSeq(s, i, i + Len(sep) - 1) = sep }
    IN  IF hits = {} THEN 0 ELSE CHOOSE i \in hits : \A j \in hits : i <= j

\* strings.Split for a non-empty separator
RECURSIVE Split(_, _)
Split(s, sep) ==
    LET i == Index(s, sep)
    IN  IF i = 0
        THEN <<s>>
        ELSE <<SubSeq(s, 1, i - 1)>> \o Split(SubSeq(s, i + Len(sep), Len(s)), sep)

RECURSIVE FilterTrimmed(_)
FilterTrimmed(parts) ==
    IF parts = <<>>
    THEN <<>>
    ELSE LET trimmed == TrimSpace(Head(parts))
         IN  (IF trimmed # <<>> THEN <<trimmed>> ELSE <<>>) \o FilterTrimmed(Tail(parts))

\* faulty variant: the segments are kept untrimmed, only the empty ones dropped
RECURSIVE FilterNonEmpty(_)
FilterNonEmpty(parts) ==
    IF parts = <<>>
    THEN <<>>
    ELSE (IF Head(parts) # <<>> THEN <<Head(parts)>> ELSE <<>>) \o FilterNonEmpty(Tail(parts))

\* faulty variant: the segments are trimmed, the empty ones kept
chunkContent_KeepEmpty(content, separator) ==
    IF content = <<>>
    THEN <<>>
    ELSE [k \in 1..Len(Split(content, separator)) |-> TrimSpace(Split(content, separator)[k])]

chunkContent_NoTrim(content, separator) ==
    IF content = <<>> THEN <<>> ELSE FilterNonEmpty(Split(content, separator))

chunkContent(content, separator) ==
    IF content = <<>> THEN <<>> ELSE FilterTrimmed(Split(content, separator))

\* Stand-in for blake3.Sum256: a fixed-width injective function of the
\* chunks of the model (no chunk is longer than DigestSize or holds a zero
\* byte): the chunk's bytes, zero-padded to DigestSize.
Sum256(chunk) ==
    [i \in 1..DigestSize |-> IF i <= Len(chunk) THEN chunk[i] ELSE 0]

HexDigits == <<"0", "1", "2", "3", "4", "5", "6", "7",
               "8", "9", "a", "b", "c", "d", "e", "f">>

\* faulty variant: no leading zero digit ("%x" of every byte)
RECURSIVE EncodeToString_NoPad(_)
EncodeToString_NoPad(bytes) ==
    IF bytes = <<>>
    THEN <<>>
    ELSE (IF Head(bytes) < 16
          THEN <<HexDigits[Head(bytes) + 1]>>
          ELSE <<HexDigits[(Head(bytes) \div 16) + 1], HexDigits[(Head(bytes) % 16) + 1]>>)
         \o EncodeToString_NoPad(Tail(bytes))

\* hex.EncodeToString: two lowercase hex digits per byte
RECURSIVE EncodeToString(_)
EncodeToString(bytes) ==
    IF bytes = <<>>
    THEN <<>>
    ELSE <<HexDigits[(Head(bytes) \div 16) + 1], HexDigits[(Head(bytes) % 16) + 1]>>
         \o EncodeToString(Tail(bytes))

hashChunk(chunk) == EncodeToString(Sum256(chunk))

\* faulty variant: the gzip writer is never closed, the trailer is missing
compressChunk_NotClosed(chunk) == <<31, 139>> \o chunk

\* gzip.Writer, as a stored (uncompressed) member: the magic bytes 0x1f 0x8b,
\* the data, and the ISIZE trailer.
compressChunk(chunk) == <<31, 139>> \o chunk \o <<Len(chunk)>>

\* fmt.Sprintf("%s%s/%s.gz", BlobsPath, hash[:2], hash)
getBlobKey(blobsPath, hash) == <<blobsPath, SubSeq(hash, 1, 2), "/", hash, ".gz">>

\* faulty variant: the trace id is left out of the key
IndexKey_NoTrace(indexesPath, traceID) == <<indexesPath, "index", ".json">>

\* fmt.Sprintf("%s%s.json", IndexesPath, traceID)
IndexKey(indexesPath, traceID) == <<indexesPath, traceID, ".json">>

\* ChunkIndex and its JSON document (json.MarshalIndent, json.Unmarshal):
\* the struct's fields under their json tags.
MarshalIndex(index) ==
    [trace_id |-> index.TraceID, span_id |-> index.SpanID, hashes |-> index.Hashes]

UnmarshalIndex(doc) ==
    [TraceID |-> doc.trace_id, SpanID |-> doc.span_id, Hashes |-> doc.hashes]

\* faulty variant: every object is read as a gzip member in good order
Gunzip_Unchecked(data) == [ok |-> TRUE, content |-> SubSeq(data, 3, Len(data) - 1)]

\* gzip.NewReader + io.Copy: the data of a well-formed member, an error otherwise
Gunzip(data) ==
    IF Len(data) < 3 \/ SubSeq(data, 1, 2) # <<31, 139>>
    THEN [ok |-> FALSE, content |-> <<>>]
    ELSE IF data[Len(data)] # Len(data) - 3
         THEN [ok |-> FALSE, content |-> <<>>]
         ELSE [ok |-> TRUE, content |-> SubSeq(data, 3, Len(data) - 1)]

(***************************************************************************)
(* The OTLP payload and its extractor (otlp_parser.go).  A JSON value of   *)
(* the payload is a record of its JSON type t and its value v; an absent   *)
(* field has type "absent" and Go's zero value.  Span ids, trace ids and   *)
(* event names are strings; an attribute key is the sequence of the pieces *)
(* of its text, "message.content" being always a piece of its own; the     *)
(* stringValue of an attribute is a byte string.                           *)
(***************************************************************************)
JString(s) == [t |-> "string", v |-> s]

JNoString == [t |-> "absent", v |-> ""]

\* a JSON number where the struct has a string field
JNumber == [t |-> "number", v |-> ""]

JKey(pieces) == [t |-> "string", v |-> pieces]

JNoKey == [t |-> "absent", v |-> <<>>]

JArray(elems) == [t |-> "array", v |-> elems]

JNoArray == [t |-> "absent", v |-> <<>>]

\* a JSON string where the struct has a slice field
JNotArray == [t |-> "string", v |-> <<>>]

\* {"stringValue": "..."}
JStringValue(s) == [t |-> "stringValue", v |-> s]

\* {"intValue": 5}: IntValue is an interface{}, every JSON value fits
JIntValue == [t |-> "intValue", v |-> <<>>]

\* {"stringValue": 5}
JBadStringValue == [t |-> "number", v |-> <<>>]

JNoValue == [t |-> "absent", v |-> <<>>]

RECURSIVE Concat(_)
Concat(seqs) == IF seqs = <<>> THEN <<>> ELSE Head(seqs) \o Concat(Tail(seqs))

\* strings.Join
RECURSIVE StringsJoin(_, _)
StringsJoin(parts, sep) ==
    IF parts = <<>>
    THEN <<>>
    ELSE IF Len(parts) = 1
         THEN Head(parts)
         ELSE Head(parts) \o sep \o StringsJoin(Tail(parts), sep)

\* strings.Contains on an attribute key
KeyContains(key, piece) == \E i \in 1..Len(key) : key[i] = piece

\* json.Decoder.Decode into the typed structs: an absent field leaves the
\* zero value, a value of the wrong JSON type is an UnmarshalTypeError.
DecodeAttribute(a) ==
    [ok |-> a.key.t # "number" /\ a.value.t # "number",
     Key |-> a.key.v,
     StringValue |-> IF a.value.t = "stringValue" THEN a.value.v ELSE <<>>]

DecodeAttributes(j) ==
    IF j.t = "array"
    THEN [ok |-> \A i \in 1..Len(j.v) : DecodeAttribute(j.v[i]).ok,
          val |-> [i \in 1..Len(j.v) |->
                     [Key |-> DecodeAttribute(j.v[i]).Key,
                      StringValue |-> DecodeAttribute(j.v[i]).StringValue]]]
    ELSE [ok |-> j.t = "absent", val |-> <<>>]

DecodeEvent(e) ==
    [ok |-> e.name.t # "number" /\ DecodeAttributes(e.attributes).ok,
     Name |-> e.name.v,
     Attributes |-> DecodeAttributes(e.attributes).val]

DecodeEvents(j) ==
    IF j.t = "array"
    THEN [ok |-> \A i \in 1..Len(j.v) : DecodeEvent(j.v[i]).ok,
          val |-> [i \in 1..Len(j.v) |->
                     [Name |-> DecodeEvent(j.v[i]).Name,
                      Attributes |-> DecodeEvent(j.v[i]).Attributes]]]
    ELSE [ok |-> j.t = "absent", val |-> <<>>]

DecodeSpan(s) ==
    [ok |-> /\ s.traceId.t # "number"
            /\ s.spanId.t # "number"
            /\ DecodeEvents(s.events).ok
            /\ DecodeAttributes(s.attributes).ok,
     TraceID |-> s.traceId.v,
     SpanID |-> s.spanId.v,
     Events |-> DecodeEvents(s.events).val,
     Attributes |-> DecodeAttributes(s.attributes).val]

\* the document is {"resourceSpans": [{"scopeSpans": [{"spans": [...]}]}]}
Decode(doc) ==
    [ok |-> \A r \in 1..Len(doc) : \A c \in 1..Len(doc[r].scopeSpans) :
                \A k \in 1..Len(doc[r].scopeSpans[c].spans) :
                    DecodeSpan(doc[r].scopeSpans[c].spans[k]).ok,
     ResourceSpans |->
        [r \in 1..Len(doc) |->
            [ScopeSpans |->
                [c \in 1..Len(doc[r].scopeSpans) |->
                    [Spans |->
                        [k \in 1..Len(doc[r].scopeSpans[c].spans) |->
                            DecodeSpan(doc[r].scopeSpans[c].spans[k])]]]]]]

\* the inner loop over event.Attributes
BodyParts(attributes) ==
    Concat([i \in 1..Len(attributes) |->
              IF attributes[i].Key = <<"body">> /\ attributes[i].StringValue # <<>>
              THEN <<attributes[i].StringValue>>
              ELSE <<>>])

\* the loop over span.Events
EventParts(events) ==
    Concat([i \in 1..Len(events) |->
              IF events[i].Name = "llm.request" \/ events[i].Name = "llm.response"
              THEN BodyParts(events[i].Attributes)
              ELSE <<>>])

\* the loop over span.Attributes: two tests on every attribute
AttributeParts(attributes) ==
    Concat([i \in 1..Len(attributes) |->
              (IF /\ \/ attributes[i].Key = <<"input.value">>
                     \/ attributes[i].Key = <<"output.value">>
                  /\ attributes[i].StringValue # <<>>
               THEN <<attributes[i].StringValue>>
               ELSE <<>>)
              \o
              (IF /\ KeyContains(attributes[i].Key, "message.content")
                  /\ attributes[i].StringValue # <<>>
               THEN <<attributes[i].StringValue>>
               ELSE <<>>)])

\* faulty variant: the span's attributes are read before its events
extractContentFromSpan_AttributesFirst(span) ==
    StringsJoin(AttributeParts(span.Attributes) \o EventParts(span.Events), <<10>>)

extractContentFromSpan(span) ==
    StringsJoin(EventParts(span.Events) \o AttributeParts(span.Attributes), <<10>>)

\* faulty variant: a span without text is emitted with empty content
ExtractSpans_KeepEmpty(spans) ==
    [k \in 1..Len(spans) |->
        [TraceID |-> spans[k].TraceID, SpanID |-> spans[k].SpanID,
         Content |-> extractContentFromSpan(spans[k])]]

\* the innermost loop of ParseOTLPFile
ExtractSpans(spans) ==
    Concat([k \in 1..Len(spans) |->
              IF extractContentFromSpan(spans[k]) # <<>>
              THEN << [TraceID |-> spans[k].TraceID, SpanID |-> spans[k].SpanID,
                       Content |-> extractContentFromSpan(spans[k])] >>
              ELSE <<>>])

\* file.gzip: the body is a gzip stream; file.doc: the JSON document in it
ParseOTLPFile(file) ==
    IF ~file.gzip
    THEN [ok |-> FALSE, err |-> "failed to create gzip reader", results |-> <<>>]
    ELSE IF ~Decode(file.doc).ok
         THEN [ok |-> FALSE, err |-> "failed to decode OTLP JSON", results |-> <<>>]
         ELSE [ok |-> TRUE, err |-> "",
               results |->
                 LET rs == Decode(file.doc).ResourceSpans
                 IN  Concat([r \in 1..Len(rs) |->
                        Concat([c \in 1..Len(rs[r].ScopeSpans) |->
                                  ExtractSpans(rs[r].ScopeSpans[c].Spans)])])]

(***************************************************************************)
(* blobExists and the branch of processSpanContent on its result.  The     *)
(* result of s3Client.HeadObject is nil (ok) or an error with its text, a  *)
(* sequence of characters.                                                 *)
(***************************************************************************)
\* strings.Contains
Contains(s, substr) ==
    \E i \in 0..(Len(s) - Len(substr)) : SubSeq(s, i + 1, i + Len(substr)) = substr

NotFoundText == <<"N", "o", "t", "F", "o", "u", "n", "d">>

Text404 == <<"4", "0", "4">>

\* faulty variant: only the text "NotFound" is read as absent
BlobExistsResult_NotFoundOnly(head) ==
    IF ~head.ok
    THEN IF Contains(head.text, NotFoundText)
         THEN [exists |-> FALSE, failed |-> FALSE, err |-> <<>>]
         ELSE [exists |-> FALSE, failed |-> TRUE, err |-> head.text]
    ELSE [exists |-> TRUE, failed |-> FALSE, err |-> <<>>]

\* blobExists, from the result of HeadObject on: (exists, err)
BlobExistsResult(head) ==
    IF ~head.ok
    THEN IF Contains(head.text, NotFoundText) \/ Contains(head.text, Text404)
         THEN [exists |-> FALSE, failed |-> FALSE, err |-> <<>>]
         ELSE [exists |-> FALSE, failed |-> TRUE, err |-> head.text]
    ELSE [exists |-> TRUE, failed |-> FALSE, err |-> <<>>]

\* processSpanContent on the result of blobExists: return the error, go on
\* to the next chunk, or compress the chunk and store the blob
CheckBlob(head) ==
    LET r == BlobExistsResult(head)
    IN  [exists |-> r.exists, failed |-> r.failed, err |-> r.err,
         next |-> IF r.failed THEN "return"
                  ELSE IF r.exists THEN "continue" ELSE "storeBlob"]

(***************************************************************************)
(* The ingest service (internal/ingest): the span filter and the converter *)
(* of an OTLP export request into envelopes.  A span of a request has its  *)
(* name, its trace id and span id as bytes, and its attributes in order;   *)
(* an attribute value (AnyValue) is a record of its variant t and of the   *)
(* variant's string s, integer n or boolean b.                             *)
(***************************************************************************)
SpanKindKey == "openinference.span.kind"

\* filter.Default: the LiteLLM span names and the OpenInference span kinds
Default ==
    [SpanNames |-> <<"litellm_request", "raw_gen_ai_request">>,
     SpanKinds |-> <<"LLM", "EMBEDDING", "CHAIN", "RETRIEVER", "RERANKER",
                     "TOOL", "AGENT">>]

\* Config.ShouldProcess
ShouldProcess(c, spanName) ==
    \E i \in 1..Len(c.SpanNames) : c.SpanNames[i] = spanName

\* faulty variant: an empty SpanKinds list allows nothing
ShouldProcessKind_NoAllowAll(c, spanKind) ==
    \E i \in 1..Len(c.SpanKinds) : c.SpanKinds[i] = spanKind

\* Config.ShouldProcessKind
ShouldProcessKind(c, spanKind) ==
    IF Len(c.SpanKinds) = 0
    THEN TRUE
    ELSE \E i \in 1..Len(c.SpanKinds) : c.SpanKinds[i] = spanKind

\* the variants of AnyValue, and a value that is nil
StringValue(s) == [t |-> "string", s |-> s, n |-> 0, b |-> FALSE]
IntValue(n) == [t |-> "int", s |-> "", n |-> n, b |-> FALSE]
BoolValue(b) == [t |-> "bool", s |-> "", n |-> 0, b |-> b]
ArrayValue == [t |-> "array", s |-> "", n |-> 0, b |-> FALSE]
NilValue == [t |-> "nil", s |-> "", n |-> 0, b |-> FALSE]

\* attributeValueToString: the string itself, "%d" of an integer, "%t" of a
\* boolean, and "" for nil and for every other variant
attributeValueToString(val) ==
    CASE val.t = "nil" -> ""
      [] val.t = "string" -> val.s
      [] val.t = "int" -> ToString(val.n)
      [] val.t = "bool" -> (IF val.b THEN "true" ELSE "false")
      [] OTHER -> ""

\* attributesToMap: a later attribute of the same key overrides an earlier
\* one; an attribute whose string is empty is not stored
RECURSIVE attributesToMap(_)
attributesToMap(attrs) ==
    IF attrs = <<>>
    THEN << >>
    ELSE LET result == attributesToMap(SubSeq(attrs, 1, Len(attrs) - 1))
             key == attrs[Len(attrs)].key
             value == attributeValueToString(attrs[Len(attrs)].value)
         IN  IF value # ""
             THEN [k \in DOMAIN result \cup {key} |->
                     IF k = key THEN value ELSE result[k]]
             ELSE result

\* getStringAttr
getStringAttr(attrs, key, defaultVal) ==
    IF key \in DOMAIN attrs THEN attrs[key] ELSE defaultVal

\* spanToEnvelope: the ids in hex, the span kind and the attribute map (the
\* envelope's other fields are read from the attribute map in the same way)
spanToEnvelope(orgID, span) ==
    [OrgID |-> orgID,
     TraceID |-> EncodeToString(span.traceId),
     SpanID |-> EncodeToString(span.spanId),
     SpanKind |-> getStringAttr(attributesToMap(span.attributes), SpanKindKey, ""),
     Attributes |-> attributesToMap(span.attributes)]

\* the inner loop of convertOTLPToEnvelopes, over the spans of one scope
RECURSIVE ConvertSpans(_, _, _)
ConvertSpans(h, orgID, spans) ==
    IF spans = <<>>
    THEN <<>>
    ELSE LET span == Head(spans)
             attrs == attributesToMap(span.attributes)
             spanKind == getStringAttr(attrs, SpanKindKey, "")
         IN  IF ~ShouldProcess(h.spanFilter, span.name)
             THEN ConvertSpans(h, orgID, Tail(spans))
             ELSE IF ~ShouldProcessKind(h.spanFilter, spanKind)
                  THEN ConvertSpans(h, orgID, Tail(spans))
                  ELSE <<spanToEnvelope(orgID, span)>>
                       \o ConvertSpans(h, orgID, Tail(spans))

\* Handler.convertOTLPToEnvelopes
convertOTLPToEnvelopes(h, orgID, req) ==
    Concat([r \in 1..Len(req.resourceSpans) |->
        Concat([c \in 1..Len(req.resourceSpans[r].scopeSpans) |->
            ConvertSpans(h, orgID, req.resourceSpans[r].scopeSpans[c].spans)])])

(***************************************************************************)
(* The ingest HTTP server (internal/ingest/http): the routes of NewServer  *)
(* and the handlers behind them.  A request is its path, its               *)
(* Content-Encoding and x-org-id headers and the bytes of its body; gz     *)
(* tells whether its body is read through a gzip reader.  The bodies are   *)
(* protobuf wire data: a field is its tag (8 * number + wire type) and its *)
(* value.                                                                  *)
(***************************************************************************)
\* protowire.ConsumeVarint: seven bits per byte, the low bits first; n is
\* the number of bytes consumed, 0 when the bytes end too soon
RECURSIVE ConsumeVarint(_)
ConsumeVarint(b) ==
    IF b = <<>>
    THEN [n |-> 0, v |-> 0]
    ELSE IF Head(b) < 128
         THEN [n |-> 1, v |-> Head(b)]
         ELSE LET rest == ConsumeVarint(Tail(b))
              IN  IF rest.n = 0
                  THEN rest
                  ELSE [n |-> rest.n + 1, v |-> (Head(b) - 128) + 128 * rest.v]

\* the bytes of a field's value by its wire type: varint (0), fixed64 (1),
\* length-delimited (2), fixed32 (5); n is 0 when the value is cut short or
\* the wire type is none of these (6 and 7 are no wire types; no body of the
\* model opens a group, 3)
ConsumeFieldValue(typ, b) ==
    CASE typ = 0 -> [n |-> ConsumeVarint(b).n, payload |-> <<>>]
      [] typ = 1 -> [n |-> IF Len(b) >= 8 THEN 8 ELSE 0, payload |-> <<>>]
      [] typ = 5 -> [n |-> IF Len(b) >= 4 THEN 4 ELSE 0, payload |-> <<>>]
      [] typ = 2 ->
           LET size == ConsumeVarint(b)
           IN  IF size.n = 0 \/ size.n + size.v > Len(b)
               THEN [n |-> 0, payload |-> <<>>]
               ELSE [n |-> size.n + size.v,
                     payload |-> SubSeq(b, size.n + 1, size.n + size.v)]
      [] OTHER -> [n |-> 0, payload |-> <<>>]

\* the fields of a message, in order; not ok when a tag or a value does not
\* parse or the field number is 0
RECURSIVE ConsumeFields(_)
ConsumeFields(b) ==
    IF b = <<>>
    THEN [ok |-> TRUE, fields |-> <<>>]
    ELSE LET tag == ConsumeVarint(b)
             num == tag.v \div 8
             typ == tag.v % 8
             value == ConsumeFieldValue(typ, SubSeq(b, tag.n + 1, Len(b)))
             rest == ConsumeFields(SubSeq(b, tag.n + value.n + 1, Len(b)))
         IN  IF tag.n = 0 \/ num = 0 \/ value.n = 0 \/ ~rest.ok
             THEN [ok |-> FALSE, fields |-> <<>>]
             ELSE [ok |-> TRUE,
                   fields |-> <<[num |-> num, typ |-> typ, payload |-> value.payload]>>
                              \o rest.fields]

\* the message-typed fields of the OTLP messages down to the span and the
\* metric: field number -> message type
MessageFields(type) ==
    CASE type = "ExportTraceServiceRequest" -> (1 :> "ResourceSpans")
      [] type = "ResourceSpans" -> (1 :> "Resource" @@ 2 :> "ScopeSpans")
      [] type = "ScopeSpans" -> (1 :> "InstrumentationScope" @@ 2 :> "Span")
      [] type = "ExportMetricsServiceRequest" -> (1 :> "ResourceMetrics")
      [] type = "ResourceMetrics" -> (1 :> "Resource" @@ 2 :> "ScopeMetrics")
      [] type = "ScopeMetrics" -> (1 :> "InstrumentationScope" @@ 2 :> "Metric")
      [] OTHER -> << >>

\* the payloads of the length-delimited fields of one number
Payloads_Of(fields, num) ==
    LET at == SelectSeq(fields, LAMBDA f : f.num = num /\ f.typ = 2)
    IN  [i \in 1..Len(at) |-> at[i].payload]

\* proto.Unmarshal's error: the wire data of the message and of every
\* message in it parse (a field the message does not know is kept unread)
RECURSIVE ValidMessage(_, _)
ValidMessage(type, b) ==
    /\ ConsumeFields(b).ok
    /\ \A i \in 1..Len(ConsumeFields(b).fields) :
          LET f == ConsumeFields(b).fields[i]
          IN  (f.typ = 2 /\ f.num \in DOMAIN MessageFields(type)) =>
                  ValidMessage(MessageFields(type)[f.num], f.payload)

\* a span off the wire: its trace id (field 1) and span id (field 2); no
\* body of the model is long enough to carry a name or attributes
UnmarshalSpan(b) ==
    LET fields == ConsumeFields(b).fields
        bytes(num) == IF Payloads_Of(fields, num) = <<>>
                      THEN <<>>
                      ELSE Payloads_Of(fields, num)[Len(Payloads_Of(fields, num))]
    IN  [name |-> "", traceId |-> bytes(1), spanId |-> bytes(2), attributes |-> <<>>]

\* proto.Unmarshal(body, &exportReq) of HandleTraces
UnmarshalTraces(b) ==
    IF ~ValidMessage("ExportTraceServiceRequest", b)
    THEN [ok |-> FALSE, req |-> [resourceSpans |-> <<>>]]
    ELSE [ok |-> TRUE,
          req |-> [resourceSpans |->
            LET rs == Payloads_Of(ConsumeFields(b).fields, 1)
            IN  [r \in 1..Len(rs) |->
                  [scopeSpans |->
                    LET ss == Payloads_Of(ConsumeFields(rs[r]).fields, 2)
                    IN  [c \in 1..Len(ss) |->
                          [spans |->
                            LET sp == Payloads_Of(ConsumeFields(ss[c]).fields, 2)
                            IN  [k \in 1..Len(sp) |-> UnmarshalSpan(sp[k])]]]]]]]

\* proto.Unmarshal(body, &exportReq) of HandleMetrics, and the count of the
\* metrics of the request
UnmarshalMetrics(b) ==
    IF ~ValidMessage("ExportMetricsServiceRequest", b)
    THEN [ok |-> FALSE, metricsCount |-> 0]
    ELSE [ok |-> TRUE,
          metricsCount |->
            LET rm == Payloads_Of(ConsumeFields(b).fields, 1)
                sm == Concat([r \in 1..Len(rm) |-> Payloads_Of(ConsumeFields(rm[r]).fields, 2)])
            IN  Len(Concat([c \in 1..Len(sm) |-> Payloads_Of(ConsumeFields(sm[c]).fields, 2)]))]

\* NewHandler
NewHandler == [spanFilter |-> Default]

\* io.ReadAll(r.Body): the bytes of the body, or what the gzip reader put in
\* its place yields
ReadAll(r) == IF r.gz THEN Gunzip(r.body) ELSE [ok |-> TRUE, content |-> r.body]

HttpError(status, text) == [status |-> status, text |-> text, count |-> 0, org_id |-> ""]

Accepted(count, orgID) ==
    [status |-> 202, text |-> "accepted", count |-> count, org_id |-> orgID]

OrgID(r) == IF r.orgID = "" THEN "default" ELSE r.orgID

\* Handler.HandleTraces
HandleTraces(h, r) ==
    IF ~ReadAll(r).ok
    THEN HttpError(400, "Failed to read request body")
    ELSE IF ~UnmarshalTraces(ReadAll(r).content).ok
         THEN HttpError(400, "Invalid OTLP protobuf data")
         ELSE Accepted(Len(convertOTLPToEnvelopes(h, OrgID(r),
                               UnmarshalTraces(ReadAll(r).content).req)),
                       OrgID(r))

\* Handler.HandleMetrics
HandleMetrics(h, r) ==
    IF ~ReadAll(r).ok
    THEN HttpError(400, "Failed to read request body")
    ELSE IF ~UnmarshalMetrics(ReadAll(r).content).ok
         THEN HttpError(400, "Invalid OTLP protobuf data")
         ELSE Accepted(UnmarshalMetrics(ReadAll(r).content).metricsCount, OrgID(r))

\* DecompressionMiddleware, up to its call of the next handler: a body with
\* Content-Encoding gzip is read through a gzip reader and the header is
\* removed; next tells whether the handler is called, with request r
DecompressionMiddleware(r) ==
    IF r.contentEncoding = "gzip"
    THEN IF Len(r.body) < 2 \/ SubSeq(r.body, 1, 2) # <<31, 139>>
         THEN [next |-> FALSE, w |-> HttpError(400, "Invalid gzip encoding"), r |-> r]
         ELSE [next |-> TRUE, w |-> HttpError(0, ""),
               r |-> [r EXCEPT !.gz = TRUE, !.contentEncoding = ""]]
    ELSE [next |-> TRUE, w |-> HttpError(0, ""), r |-> r]

\* the routes of NewServer with the middleware around both handlers
ServeHTTP_Decompressing(h, r) ==
    LET m == DecompressionMiddleware(r)
    IN  CASE ~m.next -> m.w
          [] r.path = "/v1/traces" -> HandleTraces(h, m.r)
          [] r.path = "/v1/metrics" -> HandleMetrics(h, m.r)
          [] OTHER -> HttpError(404, "404 page not found")

\* The routes of NewServer: router.Post("/v1/traces", handler.HandleTraces)
\* and router.Post("/v1/metrics", handler.HandleMetrics).  None of the
\* router's middlewares (request id, real ip, logger, recoverer, timeout,
\* CORS) reads or replaces the body.
ServeHTTP(h, r) ==
    CASE r.path = "/v1/traces" -> HandleTraces(h, r)
      [] r.path = "/v1/metrics" -> HandleMetrics(h, r)
      [] OTHER -> HttpError(404, "404 page not found")

(***************************************************************************)
(* State.                                                                  *)
(***************************************************************************)
VARIABLES
    cfg,          \* the worker configuration of the deployment (LoadConfig)
    blobs,        \* bucket objects written by storeBlob: key -> gzip bytes
    indexes,      \* bucket objects written by storeIndex: key -> JSON document
    wk,           \* per worker process: pc (the I/O call it is about to make),
                  \*   queue (listed keys pollAndProcess has yet to visit),
                  \*   processed (Worker.processedFiles), si and ci (position in
                  \*   the spans of the file and the chunks of the span), hashes
                  \*   (the slice of processSpanContent), polls (polls made),
                  \*   ctx (the context main hands to Start: live or canceled)
    restarts,     \* restarts so far
    failures,     \* failed I/O calls so far
    rc,           \* the reconstruction tool, one run of cmd/reconstruct: pc, the
                  \*   trace asked for, the index read, i (position in its
                  \*   hashes), out (the strings.Builder), err and cause (the
                  \*   fatal message and the error it wraps), hash (the digest
                  \*   the message names), fetches (GetObject calls on blob keys)
    reconstructs, \* reconstruction requests so far
    blobPuts,     \* history: successful blob PutObject calls, <<key, data>> -> 1, or 2 for more
    storeOps,     \* history: chunk -> completed store operations, 1, or 2 for more
    indexPuts,    \* history: the index documents ever written
    lastIndexSpan,\* history: index key -> span of the latest successful write
    putSpans,     \* history: spans for which a PutObject was issued
    started,      \* history: files whose processing was started
    call          \* one call of a pure function on its own: the function, its
                  \*   arguments, and its result once it has returned

hvars == <<blobPuts, storeOps, indexPuts, lastIndexSpan, putSpans, started>>
vars == <<cfg, blobs, indexes, wk, restarts, failures, rc, reconstructs, hvars, call>>

IdleWorker ==
    [pc |-> "wait", queue |-> <<>>, processed |-> {}, si |-> 0, ci |-> 0,
     hashes |-> <<>>, polls |-> 0, ctx |-> "live"]

IdleReconstructor ==
    [pc |-> "idle", trace |-> "", index |-> [TraceID |-> "", SpanID |-> "", Hashes |-> <<>>],
     i |-> 0, out |-> <<>>, err |-> "", cause |-> "", hash |-> <<>>, fetches |-> 0,
     stdout |-> <<>>, exit |-> "running"]

NoCall == [fn |-> "", args |-> <<>>, result |-> <<>>, done |-> FALSE]

InitFrom(configs) ==
    /\ call = NoCall
    /\ cfg \in configs
    /\ blobs = << >>
    /\ indexes = << >>
    /\ wk = [w \in Workers |-> IdleWorker]
    /\ restarts = 0
    /\ failures = 0
    /\ rc = IdleReconstructor
    /\ reconstructs = 0
    /\ blobPuts = << >>
    /\ storeOps = << >>
    /\ indexPuts = {}
    /\ lastIndexSpan = << >>
    /\ putSpans = {}
    /\ started = {}

Init == InitFrom(Configs)

InitRec == InitFrom(ReconstructConfigs)

(***************************************************************************)
(* The worker: Start, pollAndProcess, ProcessFile, processSpanContent.     *)
(* One action per S3 call; the control flow between two calls (the loops   *)
(* over the listed keys, the spans and the chunks) is part of the action   *)
(* that ends with the call's result.                                       *)
(***************************************************************************)
CanFail == failures < MaxFailures

\* the context of worker w is canceled: every S3 call made with it returns
\* its error ("context canceled", which blobExists does not read as absent)
Cancelled(w) == wk[w].ctx = "canceled"

\* an S3 call of worker w can fail: a fault of the budget, or its context
CallCanFail(w) == CanFail \/ Cancelled(w)

FailuresAfter(w) == IF Cancelled(w) THEN failures ELSE failures + 1

\* faulty variant: a failed listing ends Start
PollFailed_Return(me) == [me EXCEPT !.polls = @ + 1, !.pc = "returned"]

\* Start: the error of pollAndProcess is logged, the loop goes on
PollFailed(me) == [me EXCEPT !.polls = @ + 1]

\* f with key k bound to v
Put(f, k, v) == (k :> v) @@ f

Count(f, k) == IF k \in DOMAIN f THEN f[k] ELSE 0

\* history counters count 1, then 2 for "twice or more"
Bump(f, k) == Put(f, k, IF Count(f, k) = 0 THEN 1 ELSE 2)

CurFile(w) == Head(wk[w].queue)
CurSpan(w) == Extracted(CurFile(w))[wk[w].si]
CurChunks(w) == chunkContent(CurSpan(w).Content, cfg.ChunkSeparator)
CurChunk(w) == CurChunks(w)[wk[w].ci]

\* faulty variant: every HeadObject error is read as NotFound, a hit included
blobExists_NeverFound(objects, key) == FALSE

\* blobExists: HeadObject answers NotFound exactly for an absent key
blobExists(objects, key) == key \in DOMAIN objects

\* faulty variant: a write to an existing key appends to the object
storeBlob_Append(objects, key, data) ==
    Put(objects, key, IF key \in DOMAIN objects THEN objects[key] \o data ELSE data)

\* storeBlob: PutObject replaces whatever the key held
storeBlob(objects, key, data) == Put(objects, key, data)

\* faulty variant: an existing index of the trace is merged with the new one
storeIndex_Merge(objects, indexesPath, traceID, index) ==
    LET key == IndexKey(indexesPath, traceID)
    IN  Put(objects, key,
            IF key \in DOMAIN objects
            THEN [MarshalIndex(index) EXCEPT !.hashes = objects[key].hashes \o @]
            ELSE MarshalIndex(index))

\* storeIndex: the JSON document, put at the key derived from the trace id
storeIndex(objects, indexesPath, traceID, index) ==
    Put(objects, IndexKey(indexesPath, traceID), MarshalIndex(index))

\* faulty variant: a digest already in the list is not listed again
AppendHash_Distinct(hashes, hash) ==
    IF \E i \in 1..Len(hashes) : hashes[i] = hash THEN hashes ELSE Append(hashes, hash)

\* hashes = append(hashes, hash)
AppendHash(hashes, hash) == Append(hashes, hash)

\* processSpanContent's chunk loop: an empty chunk is skipped (continue)
RECURSIVE SkipEmpty(_, _)
SkipEmpty(chunks, i) ==
    IF i <= Len(chunks) /\ chunks[i] = <<>> THEN SkipEmpty(chunks, i + 1) ELSE i

\* faulty variant: the chunk after the next one is taken
NextChunk_SkipOne(me, chunks) ==
    IF me.ci + 2 > Len(chunks)
    THEN [me EXCEPT !.pc = "index", !.ci = Len(chunks) + 1]
    ELSE [me EXCEPT !.pc = "head", !.ci = me.ci + 2]

\* processSpanContent's chunk loop moves on: the next chunk to hash and
\* check, or the index after the last one
NextChunk(me, chunks) ==
    LET n == SkipEmpty(chunks, me.ci + 1)
    IN  IF n > Len(chunks)
        THEN [me EXCEPT !.pc = "index", !.ci = n]
        ELSE [me EXCEPT !.pc = "head", !.ci = n]

\* faulty variant: isProcessed is not asked, every listed key is handed on
NextFile_NoSkip(me, q) ==
    IF q = <<>>
    THEN [me EXCEPT !.pc = "wait", !.queue = <<>>, !.si = 0, !.ci = 0, !.hashes = <<>>]
    ELSE [me EXCEPT !.pc = "download", !.queue = q, !.si = 0, !.ci = 0, !.hashes = <<>>]

\* pollAndProcess's loop over page.Contents, from the keys q still to visit:
\* a processed key is skipped, the next one is handed to ProcessFile, and
\* after the last one the worker waits for the ticker
RECURSIVE NextFile(_, _)
NextFile(me, q) ==
    IF q = <<>>
    THEN [me EXCEPT !.pc = "wait", !.queue = <<>>, !.si = 0, !.ci = 0, !.hashes = <<>>]
    ELSE IF Head(q) \in me.processed
         THEN NextFile(me, Tail(q))
         ELSE [me EXCEPT !.pc = "download", !.queue = q, !.si = 0, !.ci = 0, !.hashes = <<>>]

\* ProcessFile's loop over the extracted spans, from span s: a span with no
\* chunks returns at once, a span with chunks starts its chunk loop, and
\* after the last span ProcessFile returns nil and the key is marked
RECURSIVE NextSpan(_, _, _)
NextSpan(me, s, separator) ==
    LET file == Head(me.queue)
    IN  IF s > Len(Extracted(file))
        THEN NextFile([me EXCEPT !.processed = @ \cup {file}], Tail(me.queue))
        ELSE IF Len(chunkContent(Extracted(file)[s].Content, separator)) = 0
             THEN NextSpan(me, s + 1, separator)
             ELSE NextChunk([me EXCEPT !.si = s, !.ci = 0, !.hashes = <<>>],
                            chunkContent(Extracted(file)[s].Content, separator))

\* faulty variant: the failed chunk is left out, the span goes on
SpanFailed_SkipChunk(me, separator) ==
    NextChunk(me, chunkContent(Extracted(Head(me.queue))[me.si].Content, separator))

\* faulty variant: the error of a span ends ProcessFile, the key unmarked
SpanFailed_AbortFile(me, separator) == NextFile(me, Tail(me.queue))

\* processSpanContent returns an error: ProcessFile logs it and continues
\* with the next span
SpanFailed(me, separator) == NextSpan(me, me.si + 1, separator)

\* pollAndProcess: the paginator lists raw-spans/, or fails and the poll ends
ListObjects(w) ==
    /\ wk[w].pc = "wait"
    /\ wk[w].polls < MaxPolls
    /\ \/ /\ ~Cancelled(w)
          /\ wk' = [wk EXCEPT ![w] = NextFile([@ EXCEPT !.polls = @ + 1], Listing)]
          /\ UNCHANGED failures
       \/ /\ CallCanFail(w)
          /\ failures' = FailuresAfter(w)
          /\ wk' = [wk EXCEPT ![w] = PollFailed(@)]
    /\ UNCHANGED <<cfg, call, blobs, indexes, restarts, rc, reconstructs, hvars>>

\* ProcessFile: GetObject and ParseOTLPFile; an error leaves the key unmarked
GetObject(w) ==
    /\ wk[w].pc = "download"
    /\ \/ /\ ~Cancelled(w)
          /\ wk' = [wk EXCEPT ![w] = NextSpan(@, 1, cfg.ChunkSeparator)]
          /\ started' = started \cup {CurFile(w)}
          /\ UNCHANGED failures
       \/ /\ CallCanFail(w)
          /\ failures' = FailuresAfter(w)
          /\ wk' = [wk EXCEPT ![w] = NextFile(@, Tail(@.queue))]
          /\ UNCHANGED started
    /\ UNCHANGED <<cfg, call, blobs, indexes, restarts, rc, reconstructs,
                   blobPuts, storeOps, indexPuts, lastIndexSpan, putSpans>>

\* processSpanContent, per chunk: hashChunk, append to hashes, blobExists
HeadObject(w) ==
    /\ wk[w].pc = "head"
    /\ LET hash == hashChunk(CurChunk(w))
           blobKey == getBlobKey(cfg.BlobsPath, hash)
           me == [wk[w] EXCEPT !.hashes = AppendHash(@, hash)]
       IN  \/ /\ ~Cancelled(w)
              /\ blobExists(blobs, blobKey)
              /\ wk' = [wk EXCEPT ![w] = NextChunk(me, CurChunks(w))]
              /\ storeOps' = Bump(storeOps, CurChunk(w))
              /\ UNCHANGED failures
           \/ /\ ~Cancelled(w)
              /\ ~blobExists(blobs, blobKey)
              /\ wk' = [wk EXCEPT ![w] = [me EXCEPT !.pc = "put"]]
              /\ UNCHANGED <<failures, storeOps>>
           \/ /\ CallCanFail(w)
              /\ failures' = FailuresAfter(w)
              /\ wk' = [wk EXCEPT ![w] = SpanFailed(me, cfg.ChunkSeparator)]
              /\ UNCHANGED storeOps
    /\ UNCHANGED <<cfg, call, blobs, indexes, restarts, rc, reconstructs,
                   blobPuts, indexPuts, lastIndexSpan, putSpans, started>>

\* processSpanContent, per absent chunk: compressChunk and storeBlob
PutBlob(w) ==
    /\ wk[w].pc = "put"
    /\ putSpans' = putSpans \cup {CurSpan(w).SpanID}
    /\ LET hash == hashChunk(CurChunk(w))
           blobKey == getBlobKey(cfg.BlobsPath, hash)
           compressed == compressChunk(CurChunk(w))
       IN  \/ /\ ~Cancelled(w)
              /\ blobs' = storeBlob(blobs, blobKey, compressed)
              /\ blobPuts' = Bump(blobPuts, <<blobKey, compressed>>)
              /\ storeOps' = Bump(storeOps, CurChunk(w))
              /\ wk' = [wk EXCEPT ![w] = NextChunk(@, CurChunks(w))]
              /\ UNCHANGED failures
           \/ /\ CallCanFail(w)
              /\ failures' = FailuresAfter(w)
              /\ wk' = [wk EXCEPT ![w] = SpanFailed(@, cfg.ChunkSeparator)]
              /\ UNCHANGED <<blobs, blobPuts, storeOps>>
    /\ UNCHANGED <<cfg, call, indexes, restarts, rc, reconstructs, indexPuts, lastIndexSpan, started>>

\* processSpanContent, after the chunk loop: the index of the span, written
\* only when there is a hash to list; then the next span
PutIndex(w) ==
    /\ wk[w].pc = "index"
    /\ LET span == CurSpan(w)
           index == [TraceID |-> span.TraceID, SpanID |-> span.SpanID,
                     Hashes |-> wk[w].hashes]
       IN  IF Len(wk[w].hashes) > 0
           THEN /\ putSpans' = putSpans \cup {span.SpanID}
                /\ \/ /\ ~Cancelled(w)
                      /\ indexes' = storeIndex(indexes, cfg.IndexesPath, span.TraceID, index)
                      /\ indexPuts' = indexPuts \cup {MarshalIndex(index)}
                      /\ lastIndexSpan' =
                             Put(lastIndexSpan, IndexKey(cfg.IndexesPath, span.TraceID),
                                 span.SpanID)
                      /\ UNCHANGED failures
                   \/ /\ CallCanFail(w)
                      /\ failures' = FailuresAfter(w)
                      /\ UNCHANGED <<indexes, indexPuts, lastIndexSpan>>
           ELSE UNCHANGED <<indexes, indexPuts, lastIndexSpan, putSpans, failures>>
    /\ wk' = [wk EXCEPT ![w] = NextSpan(@, @.si + 1, cfg.ChunkSeparator)]
    /\ UNCHANGED <<cfg, call, blobs, restarts, rc, reconstructs, blobPuts, storeOps, started>>

\* the worker process is stopped between polls and started again (New):
\* processedFiles is in memory only
Restart(w) ==
    /\ wk[w].pc = "wait"
    /\ wk[w].polls > 0
    /\ restarts < MaxRestarts
    /\ restarts' = restarts + 1
    /\ wk' = [wk EXCEPT ![w] = IdleWorker]
    /\ UNCHANGED <<cfg, call, blobs, indexes, failures, rc, reconstructs, hvars>>

\* cmd/worker's main: a signal arrives and main calls cancel
Cancel(w) ==
    /\ wk[w].pc \notin {"returned", "exited"}
    /\ ~Cancelled(w)
    /\ wk' = [wk EXCEPT ![w].ctx = "canceled"]
    /\ UNCHANGED <<cfg, call, blobs, indexes, restarts, failures, rc, reconstructs, hvars>>

\* Start's select, entered after the first poll: with the context done the
\* loop ends and Start returns ctx.Err()
Return(w) ==
    /\ wk[w].pc = "wait"
    /\ wk[w].polls > 0
    /\ Cancelled(w)
    /\ wk' = [wk EXCEPT ![w].pc = "returned"]
    /\ UNCHANGED <<cfg, call, blobs, indexes, restarts, failures, rc, reconstructs, hvars>>

\* cmd/worker's main returns right after cancel, without waiting for Start:
\* the process ends wherever the worker is
Exit(w) ==
    /\ Cancelled(w)
    /\ wk[w].pc \notin {"returned", "exited"}
    /\ wk' = [wk EXCEPT ![w].pc = "exited"]
    /\ UNCHANGED <<cfg, call, blobs, indexes, restarts, failures, rc, reconstructs, hvars>>

WorkerStep(w) ==
    \/ ListObjects(w)
    \/ GetObject(w)
    \/ HeadObject(w)
    \/ PutBlob(w)
    \/ PutIndex(w)
    \/ Restart(w)

(***************************************************************************)
(* The reconstruction tool: main, downloadIndex, downloadAndDecompressBlob.*)
(* Its bucket paths and its separator are literals of cmd/reconstruct.     *)
(***************************************************************************)
ReconstructIndexKey(traceID) == <<"indexes/", traceID, ".json">>

ReconstructBlobKey(hash) == <<"blobs/", SubSeq(hash, 1, 2), "/", hash, ".gz">>

ReconstructSeparator == <<10>>

\* faulty variant: the separator is written before the first chunk too
AppendChunk_LeadingSep(out, i, content) == out \o ReconstructSeparator \o content

\* main's loop body after a blob was fetched: the separator before every
\* chunk but the first (i counts from 1 here, from 0 in the source)
AppendChunk(out, i, content) ==
    out \o (IF i > 1 THEN ReconstructSeparator ELSE <<>>) \o content

\* downloadIndex: GetObject at the key of the trace id, then json.Unmarshal;
\* an absent key is an error of GetObject
downloadIndex(objects, traceID) ==
    LET key == ReconstructIndexKey(traceID)
    IN  IF key \in DOMAIN objects
        THEN [ok |-> TRUE, index |-> UnmarshalIndex(objects[key]), err |-> ""]
        ELSE [ok |-> FALSE, index |-> IdleReconstructor.index,
              err |-> "failed to get index from S3"]

\* downloadAndDecompressBlob: GetObject at the key of the digest, then
\* gzip.NewReader (header) and io.Copy (data and trailer)
downloadAndDecompressBlob(objects, hash) ==
    LET key == ReconstructBlobKey(hash)
    IN  IF key \notin DOMAIN objects
        THEN [ok |-> FALSE, content |-> <<>>, err |-> "failed to get blob from S3"]
        ELSE IF Gunzip(objects[key]).ok
             THEN [ok |-> TRUE, content |-> Gunzip(objects[key]).content, err |-> ""]
             ELSE IF Len(objects[key]) < 2 \/ SubSeq(objects[key], 1, 2) # <<31, 139>>
                  THEN [ok |-> FALSE, content |-> <<>>, err |-> "failed to create gzip reader"]
                  ELSE [ok |-> FALSE, content |-> <<>>, err |-> "failed to decompress blob"]

\* Step 3: the reconstructed text is printed, main returns
Output(me) == [me EXCEPT !.pc = "done", !.stdout = <<me.out>>, !.exit = "0"]

\* faulty variant: the text assembled so far is printed before the exit
BlobFailed_PrintPartial(me, hash, cause) ==
    [me EXCEPT !.pc = "failed", !.err = "download blob", !.cause = cause,
               !.hash = hash, !.fetches = @ + 1, !.stdout = <<me.out>>, !.exit = "1"]

\* faulty variant: a blob that cannot be had is skipped, the loop goes on
BlobFailed_Skip(me, hash, cause) ==
    [me EXCEPT !.i = @ + 1, !.fetches = @ + 1,
               !.pc = IF me.i = Len(me.index.Hashes) THEN "done" ELSE "blob"]

\* main's loop body when downloadAndDecompressBlob returned an error:
\* log.Fatalf with the digest and the error, the process exits
BlobFailed(me, hash, cause) ==
    [me EXCEPT !.pc = "failed", !.err = "download blob", !.cause = cause,
               !.hash = hash, !.fetches = @ + 1, !.exit = "1"]

\* faulty variant: an index that cannot be had is taken for an empty one
IndexFailed_Empty(me, cause) == [me EXCEPT !.pc = "done"]

\* main when downloadIndex returned an error: log.Fatalf, the process exits
IndexFailed(me, cause) ==
    [me EXCEPT !.pc = "failed", !.err = "download index", !.cause = cause, !.exit = "1"]

\* main is started with a trace id
StartReconstruct ==
    /\ rc.pc \in {"idle", "done", "failed"}
    /\ reconstructs < MaxReconstructs
    /\ reconstructs' = reconstructs + 1
    /\ \E t \in TraceIDs : rc' = [IdleReconstructor EXCEPT !.pc = "index", !.trace = t]
    /\ UNCHANGED <<cfg, call, blobs, indexes, wk, restarts, failures, hvars>>

\* Step 1: downloadIndex; any error is fatal
DownloadIndex ==
    /\ rc.pc = "index"
    /\ LET got == downloadIndex(indexes, rc.trace)
       IN  \/ /\ got.ok
              /\ rc' = IF Len(got.index.Hashes) = 0
                       THEN Output([rc EXCEPT !.index = got.index, !.i = 1])
                       ELSE [rc EXCEPT !.index = got.index, !.i = 1, !.pc = "blob"]
              /\ UNCHANGED failures
           \/ /\ ~got.ok
              /\ rc' = IndexFailed(rc, got.err)
              /\ UNCHANGED failures
           \/ /\ CanFail
              /\ failures' = failures + 1
              /\ rc' = IndexFailed(rc, "failed to get index from S3")
    /\ UNCHANGED <<cfg, call, blobs, indexes, wk, restarts, reconstructs, hvars>>

\* Step 2, per hash: downloadAndDecompressBlob, then append with the separator
DownloadBlob ==
    /\ rc.pc = "blob"
    /\ LET hash == rc.index.Hashes[rc.i]
           got == downloadAndDecompressBlob(blobs, hash)
       IN  \/ /\ got.ok
              /\ rc' = LET appended == [rc EXCEPT
                                          !.out = AppendChunk(@, rc.i, got.content),
                                          !.i = @ + 1,
                                          !.fetches = @ + 1]
                       IN  IF rc.i = Len(rc.index.Hashes)
                           THEN Output(appended)
                           ELSE appended
              /\ UNCHANGED failures
           \/ /\ ~got.ok
              /\ rc' = BlobFailed(rc, hash, got.err)
              /\ UNCHANGED failures
           \/ /\ CanFail
              /\ failures' = failures + 1
              /\ rc' = BlobFailed(rc, hash, "failed to get blob from S3")
    /\ UNCHANGED <<cfg, call, blobs, indexes, wk, restarts, reconstructs, hvars>>

(***************************************************************************)
(* The bucket outside the program: an object of blobs/ is lost (removed by *)
(* an operator or a bucket rule) or damaged (cut short, or its first byte  *)
(* gone).  Each such fault draws on the budget of failures.                *)
(***************************************************************************)
Remove(objects, key) == [k \in DOMAIN objects \ {key} |-> objects[k]]

Tamper ==
    /\ CanFail
    /\ failures' = failures + 1
    /\ \E key \in DOMAIN blobs :
           \/ blobs' = Remove(blobs, key)
           \/ blobs' = Put(blobs, key, SubSeq(blobs[key], 1, Len(blobs[key]) - 1))
           \/ blobs' = Put(blobs, key, Tail(blobs[key]))
    /\ UNCHANGED <<cfg, call, indexes, wk, restarts, rc, reconstructs, hvars>>

(***************************************************************************)
(* Specifications.                                                         *)
(*   Spec     the worker processes, concurrently on the shared bucket      *)
(*   SpecSeq  one worker alone: every store operation in sequence          *)
(*   SpecRec  one worker and the reconstruction tool, concurrently         *)
(*   SpecEnv  SpecRec in a bucket whose blobs can be lost or damaged       *)
(*   SpecCall one call of a pure function, for every argument in bounds    *)
(*   SpecLoop one worker process from Start to its end: the polling loop,  *)
(*            the signal that cancels its context, the return of Start     *)
(***************************************************************************)
Next == \E w \in Workers : WorkerStep(w)

Spec == Init /\ [][Next]_vars

NextSeq == WorkerStep("w1")

SpecSeq == Init /\ [][NextSeq]_vars

NextRec ==
    \/ WorkerStep("w1")
    \/ StartReconstruct
    \/ DownloadIndex
    \/ DownloadBlob

SpecRec == InitRec /\ [][NextRec]_vars

NextEnv ==
    \/ WorkerStep("w1")
    \/ StartReconstruct
    \/ DownloadIndex
    \/ DownloadBlob
    \/ Tamper

SpecEnv == Init /\ [][NextEnv]_vars

\* the steps of the worker's own goroutine
LoopStep(w) ==
    \/ ListObjects(w)
    \/ GetObject(w)
    \/ HeadObject(w)
    \/ PutBlob(w)
    \/ PutIndex(w)
    \/ Return(w)

NextLoop ==
    \/ LoopStep("w1")
    \/ Cancel("w1")
    \/ Exit("w1")

\* the ticker fires: a worker waiting in Start's select is given its next
\* tick (the first poll needs none); no signal need ever come
SpecLoop == Init /\ [][NextLoop]_vars /\ WF_vars(ListObjects("w1"))

(***************************************************************************)
(* The pure functions on their own: one call, with arguments drawn from    *)
(* all strings of up to MaxLen bytes over "a", "b", "\n", " " and "|" and  *)
(* from separators of one and of two bytes.  (LoadConfig never yields an   *)
(* empty separator: an empty CHUNK_SEPARATOR reads as the default.)        *)
(***************************************************************************)
Bytes == {97, 98, 10, 32, 124}

Contents == UNION { [1..n -> Bytes] : n \in 0..MaxLen }

Separators == { <<10>>, <<124>>, <<32, 124>> }

\* Payloads of up to MaxSpans spans.  The events of a span: none, an
\* llm.request and an llm.response with bodies, events that yield nothing
\* (another name, an empty body), or a string in place of the array.
PayloadEvents ==
    { JNoArray,
      JArray(<< [name |-> JString("llm.request"),
                 attributes |-> JArray(<< [key |-> JKey(<<"body">>),
                                           value |-> JStringValue(<<97>>)] >>)],
                [name |-> JString("llm.response"),
                 attributes |-> JArray(<< [key |-> JKey(<<"role">>),
                                           value |-> JStringValue(<<97>>)],
                                          [key |-> JKey(<<"body">>),
                                           value |-> JStringValue(<<98, 32>>)] >>)] >>),
      JArray(<< [name |-> JString("tool.call"),
                 attributes |-> JArray(<< [key |-> JKey(<<"body">>),
                                           value |-> JStringValue(<<97>>)] >>)],
                [name |-> JString("llm.request"),
                 attributes |-> JArray(<< [key |-> JKey(<<"body">>),
                                           value |-> JStringValue(<<>>)],
                                          [key |-> JNoKey,
                                           value |-> JStringValue(<<98>>)] >>)],
                [name |-> JNoString, attributes |-> JNoArray] >>),
      JNotArray }

\* The attributes of a span: none, input.value and output.value, a key
\* around message.content with values that are no strings, or a number in
\* place of a stringValue.
PayloadAttributes ==
    { JNoArray,
      JArray(<< [key |-> JKey(<<"output.value">>), value |-> JStringValue(<<98>>)],
                [key |-> JKey(<<"input.value">>), value |-> JStringValue(<<97, 10>>)] >>),
      JArray(<< [key |-> JKey(<<"input.value">>), value |-> JIntValue],
                [key |-> JKey(<<"llm.input_messages.0.", "message.content", "s">>),
                 value |-> JStringValue(<<98>>)],
                [key |-> JKey(<<"model">>), value |-> JStringValue(<<97>>)],
                [key |-> JKey(<<"output.value">>), value |-> JNoValue] >>),
      JArray(<< [key |-> JKey(<<"input.value">>), value |-> JBadStringValue] >>) }

\* the span that has the events with bodies and input.value/output.value
FullSpan ==
    [traceId |-> JString("T1"), spanId |-> JNoString,
     events |-> CHOOSE e \in PayloadEvents :
                   e.t = "array" /\ e.v[1].name = JString("llm.request"),
     attributes |-> CHOOSE a \in PayloadAttributes :
                       a.t = "array" /\ a.v[1].key = JKey(<<"output.value">>)]

\* Spans with events only, with attributes only, with both, and with a
\* trace id that is absent or a number.
PayloadSpans ==
    { [traceId |-> JString("T1"), spanId |-> JNoString, events |-> e, attributes |-> JNoArray] :
        e \in PayloadEvents }
    \cup
    { [traceId |-> JString("T1"), spanId |-> JNoString, events |-> JNoArray, attributes |-> a] :
        a \in PayloadAttributes }
    \cup
    { FullSpan }
    \cup
    { [traceId |-> t, spanId |-> JNoString,
       events |-> JNoArray,
       attributes |-> JArray(<< [key |-> JKey(<<"input.value">>),
                                 value |-> JStringValue(<<97>>)] >>)] :
        t \in {JNoString, JNumber} }

\* the k-th span of a payload has span id k
Numbered(spans) ==
    [k \in 1..Len(spans) |-> [spans[k] EXCEPT !.spanId = JString(ToString(k))]]

\* the spans in two groups, under one resourceSpans element or under two
Document(spans, cut, level) ==
    LET first == [spans |-> SubSeq(spans, 1, cut)]
        second == [spans |-> SubSeq(spans, cut + 1, Len(spans))]
    IN  IF level = "scope"
        THEN << [scopeSpans |-> <<first, second>>] >>
        ELSE << [scopeSpans |-> <<first>>], [scopeSpans |-> <<second>>] >>

\* the payloads of up to max spans, and a body that is no gzip stream
Payloads(max) ==
    { [gzip |-> FALSE, doc |-> <<>>], [gzip |-> TRUE, doc |-> <<>>] }
    \cup
    UNION { { [gzip |-> TRUE, doc |-> Document(Numbered(spans), cut, level)] :
                spans \in [1..n -> PayloadSpans], cut \in 0..n,
                level \in {"scope", "resource"} } : n \in 0..max }

\* The span filters of a handler: filter.Default, the default names with no
\* span kinds configured, and one name with two kinds
FilterConfigs ==
    { Default,
      [Default EXCEPT !.SpanKinds = <<>>],
      [SpanNames |-> <<"litellm_request">>, SpanKinds |-> <<"LLM", "5">>] }

\* The attributes of a span of a request: none; the span kind as a string
\* (a kind of the default filter, another kind, the empty string); the kind
\* twice (the later one empty, the later one another kind); the kind as an
\* integer, as nil; the kind's text under another key
RequestAttributes ==
    { <<>>,
      << [key |-> SpanKindKey, value |-> StringValue("LLM")] >>,
      << [key |-> SpanKindKey, value |-> StringValue("VENDOR")] >>,
      << [key |-> SpanKindKey, value |-> StringValue("")] >>,
      << [key |-> SpanKindKey, value |-> StringValue("LLM")],
         [key |-> SpanKindKey, value |-> StringValue("")] >>,
      << [key |-> SpanKindKey, value |-> StringValue("TOOL")],
         [key |-> "llm.provider", value |-> BoolValue(TRUE)],
         [key |-> SpanKindKey, value |-> StringValue("VENDOR")] >>,
      << [key |-> SpanKindKey, value |-> IntValue(5)] >>,
      << [key |-> SpanKindKey, value |-> NilValue],
         [key |-> "llm.provider", value |-> StringValue("LLM")],
         [key |-> "tags", value |-> ArrayValue] >> }

\* Spans of a default name with every attribute list, of the other default
\* name without a span kind, and a vendor span with a span kind
RequestSpans ==
    { [name |-> "litellm_request", traceId |-> <<171>>, spanId |-> <<0>>,
       attributes |-> a] : a \in RequestAttributes }
    \cup
    { [name |-> "raw_gen_ai_request", traceId |-> <<171>>, spanId |-> <<0>>,
       attributes |-> <<>>],
      [name |-> "llm.azure.chat", traceId |-> <<171>>, spanId |-> <<0>>,
       attributes |-> << [key |-> SpanKindKey, value |-> StringValue("LLM")] >>] }

\* the export requests of up to max spans: the k-th span has span id k, the
\* spans are in two groups under one resourceSpans element or under two
ExportRequests(max) ==
    UNION { { [resourceSpans |->
                 Document([k \in 1..n |-> [spans[k] EXCEPT !.spanId = <<k>>]],
                          cut, level)] :
                spans \in [1..n -> RequestSpans], cut \in 0..n,
                level \in {"scope", "resource"} } : n \in 0..max }

\* The requests to the ingest server: a body is wire data of up to MaxLen
\* bytes (tags of the fields 1 and 2 as length-delimited, lengths, and bytes
\* that are no tag), as it is or as a gzip writer compresses it; the sender
\* declares it as gzip or not, and names an organisation or none.
WireBytes == {0, 10, 18}

HttpRequests(max) ==
    LET plain == UNION { [1..n -> WireBytes] : n \in 0..max }
    IN  { [path |-> path, contentEncoding |-> encoding, orgID |-> org,
           body |-> body, gz |-> FALSE] :
            path \in {"/v1/traces", "/v1/metrics"},
            encoding \in {"", "gzip"},
            org \in {"", "acme"},
            body \in plain \cup { compressChunk(b) : b \in plain } }

\* The results of HeadObject: no error; the errors of the S3 client for an
\* absent key, a denied request, a canceled context; texts close to
\* "NotFound"; and every text of up to MaxLen characters of "4", "0", "x"
HeadTexts(max) ==
    { <<"a", "p", "i", " ">> \o NotFoundText \o <<":">>,
      NotFoundText,
      <<"N", "o", "t", " ", "F", "o", "u", "n", "d">>,
      <<"n", "o", "t", "f", "o", "u", "n", "d">>,
      <<"N", "o", "t", "F", "o", "u", "n">>,
      <<"C", "o", "d", "e", ":", " ", "4", "0", "3">>,
      <<"c", "a", "n", "c", "e", "l", "e", "d">> }
    \cup
    UNION { [1..n -> {"4", "0", "x"}] : n \in 0..max }

HeadResults(max) ==
    { [ok |-> TRUE, text |-> <<>>] }
    \cup
    { [ok |-> FALSE, text |-> text] : text \in HeadTexts(max) }

\* the chunks hashed on their own: up to MaxLen bytes of "a", "\n" and " "
Chunks == UNION { [1..n -> {97, 10, 32}] : n \in 0..MaxLen }

InitCall ==
    /\ \/ call \in { [fn |-> "chunkContent", args |-> <<content, separator>>,
                       result |-> <<>>, done |-> FALSE] :
                         content \in Contents, separator \in Separators }
       \/ call \in { [fn |-> "ParseOTLPFile", args |-> <<file>>,
                       result |-> <<>>, done |-> FALSE] : file \in Payloads(MaxSpans) }
       \/ call \in { [fn |-> "hashChunk", args |-> <<chunk, other>>,
                       result |-> <<>>, done |-> FALSE] : chunk \in Chunks, other \in Chunks }
       \/ call \in { [fn |-> "convertOTLPToEnvelopes",
                       args |-> <<[spanFilter |-> c], "default", req>>,
                       result |-> <<>>, done |-> FALSE] :
                         c \in FilterConfigs, req \in ExportRequests(MaxSpans) }
       \/ call \in { [fn |-> "ServeHTTP", args |-> <<r>>,
                       result |-> <<>>, done |-> FALSE] : r \in HttpRequests(MaxLen) }
       \/ call \in { [fn |-> "blobExists", args |-> <<head>>,
                       result |-> <<>>, done |-> FALSE] : head \in HeadResults(MaxLen) }
    /\ cfg = DefaultConfig
    /\ blobs = << >>
    /\ indexes = << >>
    /\ wk = [w \in Workers |-> IdleWorker]
    /\ restarts = 0
    /\ failures = 0
    /\ rc = IdleReconstructor
    /\ reconstructs = 0
    /\ blobPuts = << >>
    /\ storeOps = << >>
    /\ indexPuts = {}
    /\ lastIndexSpan = << >>
    /\ putSpans = {}
    /\ started = {}

\* processSpanContent's first statement, on its own: p.chunkContent(content),
\* the separator being that of the configuration
ChunkContentCall ==
    /\ call.fn = "chunkContent"
    /\ ~call.done
    /\ call' = [call EXCEPT !.result = chunkContent(call.args[1], call.args[2]),
                            !.done = TRUE]
    /\ UNCHANGED <<cfg, blobs, indexes, wk, restarts, failures, rc, reconstructs, hvars>>

\* ProcessFile's second step, on its own: ParseOTLPFile(result.Body)
ParseOTLPFileCall ==
    /\ call.fn = "ParseOTLPFile"
    /\ ~call.done
    /\ call' = [call EXCEPT !.result = ParseOTLPFile(call.args[1]), !.done = TRUE]
    /\ UNCHANGED <<cfg, blobs, indexes, wk, restarts, failures, rc, reconstructs, hvars>>

\* hashChunk on two chunks, as TestHashChunk calls it
HashChunkCall ==
    /\ call.fn = "hashChunk"
    /\ ~call.done
    /\ call' = [call EXCEPT !.result = <<hashChunk(call.args[1]), hashChunk(call.args[2])>>,
                            !.done = TRUE]
    /\ UNCHANGED <<cfg, blobs, indexes, wk, restarts, failures, rc, reconstructs, hvars>>

\* HandleTraces' conversion, on its own: h.convertOTLPToEnvelopes(orgID, &exportReq)
ConvertCall ==
    /\ call.fn = "convertOTLPToEnvelopes"
    /\ ~call.done
    /\ call' = [call EXCEPT !.result = convertOTLPToEnvelopes(call.args[1], call.args[2],
                                                              call.args[3]),
                            !.done = TRUE]
    /\ UNCHANGED <<cfg, blobs, indexes, wk, restarts, failures, rc, reconstructs, hvars>>

\* one POST to the server that NewServer builds
ServeHTTPCall ==
    /\ call.fn = "ServeHTTP"
    /\ ~call.done
    /\ call' = [call EXCEPT !.result = ServeHTTP(NewHandler, call.args[1]), !.done = TRUE]
    /\ UNCHANGED <<cfg, blobs, indexes, wk, restarts, failures, rc, reconstructs, hvars>>

\* processSpanContent's check of one chunk, on its own: p.blobExists(ctx,
\* blobKey) and the branch on its result
BlobExistsCall ==
    /\ call.fn = "blobExists"
    /\ ~call.done
    /\ call' = [call EXCEPT !.result = CheckBlob(call.args[1]), !.done = TRUE]
    /\ UNCHANGED <<cfg, blobs, indexes, wk, restarts, failures, rc, reconstructs, hvars>>

NextCall ==
    \/ ChunkContentCall
    \/ ParseOTLPFileCall
    \/ HashChunkCall
    \/ ConvertCall
    \/ ServeHTTPCall
    \/ BlobExistsCall

SpecCall == InitCall /\ [][NextCall]_vars

(***************************************************************************)
(* Vocabulary of the properties.                                           *)
(***************************************************************************)
SpanByID(id) == CHOOSE span \in AllSpans : span.SpanID = id

ChunksOf(span) == chunkContent(span.Content, cfg.ChunkSeparator)

DigestsOf(span) == [i \in 1..Len(ChunksOf(span)) |-> hashChunk(ChunksOf(span)[i])]

WorkerBlobKey(chunk) == getBlobKey(cfg.BlobsPath, hashChunk(chunk))

Range(s) == { s[i] : i \in 1..Len(s) }

\* the spans whose index was written, and the keys holding a blob of chunk c
IndexedSpans == { d.span_id : d \in indexPuts }

BlobsOf(c) == { key \in DOMAIN blobs : Gunzip(blobs[key]).content = c }

\* the bytes are a gzip member in good order: magic, data, matching trailer
Intact(data) ==
    /\ Len(data) >= 3
    /\ data[1] = 31
    /\ data[2] = 139
    /\ data[Len(data)] = Len(data) - 3

\* the digest the reconstruction is about to fetch, and the tool's key for it
RcHash == rc.index.Hashes[rc.i]

RcKey == ReconstructBlobKey(RcHash)

\* a reconstruction that failed stays failed; only a new request follows it
RcFailedIsFinal ==
    (rc.pc = "failed" /\ rc' # rc)
        => /\ reconstructs' = reconstructs + 1
           /\ rc'.pc = "index"
           /\ rc'.fetches = 0

RECURSIVE Join(_, _)
Join(parts, sep) ==
    IF parts = <<>>
    THEN <<>>
    ELSE IF Len(parts) = 1
         THEN Head(parts)
         ELSE Head(parts) \o sep \o Join(Tail(parts), sep)

\* every segment of the content consists of white space only
Blank(content, separator) ==
    \A k \in 1..Len(Split(content, separator)) :
        \A j \in 1..Len(Split(content, separator)[k]) :
            IsSpace(Split(content, separator)[k][j])

\* One worker processing a file once, from an empty bucket, with no failure:
\* the composition of the worker's own steps.
RECURSIVE SeqChunks(_, _, _)
SeqChunks(objects, chunks, i) ==
    IF i > Len(chunks)
    THEN objects
    ELSE LET key == WorkerBlobKey(chunks[i])
         IN  SeqChunks(IF blobExists(objects, key)
                       THEN objects
                       ELSE storeBlob(objects, key, compressChunk(chunks[i])),
                       chunks, i + 1)

SeqSpan(st, span) ==
    IF ChunksOf(span) = <<>>
    THEN st
    ELSE [blobs |-> SeqChunks(st.blobs, ChunksOf(span), 1),
          indexes |-> storeIndex(st.indexes, cfg.IndexesPath, span.TraceID,
                                 [TraceID |-> span.TraceID, SpanID |-> span.SpanID,
                                  Hashes |-> DigestsOf(span)])]

RECURSIVE SeqSpans(_, _, _)
SeqSpans(st, spans, i) ==
    IF i > Len(spans) THEN st ELSE SeqSpans(SeqSpan(st, spans[i]), spans, i + 1)

SeqFile(file) == SeqSpans([blobs |-> << >>, indexes |-> << >>], Extracted(file), 1)

\* the files of the listing processed once, in listing order
RECURSIVE SeqFiles(_, _, _)
SeqFiles(st, files, i) ==
    IF i > Len(files)
    THEN st
    ELSE SeqFiles(SeqSpans(st, Extracted(files[i]), 1), files, i + 1)

SeqListing == SeqFiles([blobs |-> << >>, indexes |-> << >>], Listing, 1)

\* the file was processed to the end by every worker, nothing failed and no
\* other file was touched
ProcessedByAll(file) ==
    /\ failures = 0
    /\ started = {file}
    /\ \A w \in Workers : file \in wk[w].processed

(***************************************************************************)
(* Properties.                                                             *)
(***************************************************************************)

\* C1: with one worker and no failure, a chunk stored twice in sequence
\* (two store operations on the same content) is written by exactly one
\* PutObject, at the key of its digest, and every index lists the same
\* digest for the same chunk content.
C1_StoreTwiceOneWrite ==
    failures = 0 =>
        /\ \A e \in DOMAIN blobPuts : blobPuts[e] = 1
        /\ \A c \in DOMAIN storeOps :
               Count(blobPuts, <<WorkerBlobKey(c), compressChunk(c)>>) = 1
        /\ \A d1 \in indexPuts, d2 \in indexPuts :
               \A i \in 1..Len(d1.hashes), j \in 1..Len(d2.hashes) :
                   ChunksOf(SpanByID(d1.span_id))[i] = ChunksOf(SpanByID(d2.span_id))[j]
                       => d1.hashes[i] = d2.hashes[j]

\* C1 witness: some chunk went through two store operations and one write
C1_Witness ==
    /\ failures = 0
    /\ \E c \in DOMAIN storeOps :
           /\ storeOps[c] = 2
           /\ Count(blobPuts, <<WorkerBlobKey(c), compressChunk(c)>>) = 1
    /\ \E d \in indexPuts : Len(d.hashes) = 2 /\ d.hashes[1] = d.hashes[2]

\* C2: every blob in the bucket decompresses, and it lies at the key of the
\* digest of what it decompresses to.
C2_BlobMatchesKey ==
    \A key \in DOMAIN blobs :
        /\ Gunzip(blobs[key]).ok
        /\ key = WorkerBlobKey(Gunzip(blobs[key]).content)

\* C2 witness: several blobs, one of them written twice by racing workers
C2_Witness ==
    /\ Cardinality(DOMAIN blobs) >= 2
    /\ \E e \in DOMAIN blobPuts : blobPuts[e] = 2
    /\ restarts > 0

\* C3: once the workers have all processed the same file (nothing failed),
\* the blobs and the indexes are those of one worker processing it once;
\* and all writes to one blob key carried the same bytes.
C3_ConcurrentSameFile ==
    /\ \A file \in Files :
           ProcessedByAll(file) =>
               /\ blobs = SeqFile(file).blobs
               /\ indexes = SeqFile(file).indexes
    /\ \A e1 \in DOMAIN blobPuts, e2 \in DOMAIN blobPuts :
           e1[1] = e2[1] => e1[2] = e2[2]

\* C3 witness: both workers are through the file, and they raced: one blob
\* was written twice
C3_Witness ==
    /\ ProcessedByAll("f1")
    /\ restarts = 0
    /\ \E e \in DOMAIN blobPuts : blobPuts[e] = 2
    /\ indexes # << >>

\* C4 (as claimed): a finished reconstruction yields the content of the span
\* exactly.  Stated for the default configuration.
C4_LosslessAsClaimed ==
    (cfg = DefaultConfig /\ rc.pc = "done")
        => rc.out = SpanByID(rc.index.SpanID).Content

\* C5: a finished reconstruction outputs the chunks the index was built
\* from, in index order, one separator (the reconstruction tool's) between
\* adjacent chunks, none before the first or after the last; while it runs,
\* the output so far is that of the chunks fetched so far.
C5_ReconstructJoinsInOrder ==
    /\ rc.pc = "done" =>
           rc.out = Join(ChunksOf(SpanByID(rc.index.SpanID)), ReconstructSeparator)
    /\ rc.pc = "blob" =>
           rc.out = Join(SubSeq(ChunksOf(SpanByID(rc.index.SpanID)), 1, rc.i - 1),
                         ReconstructSeparator)

\* C5 witness: a reconstruction of two chunks finished
C5_Witness ==
    /\ rc.pc = "done"
    /\ Len(rc.index.Hashes) = 2
    /\ rc.fetches = 2
    /\ Len(rc.out) = 3

\* C6 (as claimed): between the first and the second chunk of a finished
\* reconstruction stands the separator the worker chunked with.
C6_SameSeparatorAsClaimed ==
    (rc.pc = "done" /\ Len(rc.index.Hashes) >= 2) =>
        LET first == ChunksOf(SpanByID(rc.index.SpanID))[1]
        IN  SubSeq(rc.out, Len(first) + 1, Len(first) + Len(cfg.ChunkSeparator))
                = cfg.ChunkSeparator

\* the step is a failed HeadObject or blob PutObject of worker w
ChunkStepFails(w) ==
    /\ wk[w].pc \in {"head", "put"}
    /\ failures' = failures + 1
    /\ wk'[w] # wk[w]

\* C7 (as claimed): when a chunk of a span fails after earlier chunks of the
\* span were stored, the span ends with an index that lists exactly the
\* digests of the stored chunks, in order.
C7_PartialIndexAsClaimed ==
    [][\A w \in Workers :
          (/\ ChunkStepFails(w)
           /\ wk[w].ci > 1
           /\ (wk'[w].si # wk[w].si \/ wk'[w].queue # wk[w].queue))
          => LET key == IndexKey(cfg.IndexesPath, CurSpan(w).TraceID)
             IN  /\ key \in DOMAIN indexes'
                 /\ indexes'[key] =
                        [trace_id |-> CurSpan(w).TraceID, span_id |-> CurSpan(w).SpanID,
                         hashes |-> SubSeq(DigestsOf(CurSpan(w)), 1, wk[w].ci - 1)]]_vars

\* C8 (as claimed): after a failed existence check or blob write the worker
\* goes on with the next chunk of the same span.
C8_SiblingChunksAsClaimed ==
    [][\A w \in Workers :
          (ChunkStepFails(w) /\ wk[w].ci < Len(CurChunks(w)))
          => /\ wk'[w].pc = "head"
             /\ wk'[w].queue = wk[w].queue
             /\ wk'[w].si = wk[w].si
             /\ wk'[w].ci = wk[w].ci + 1]_vars

\* C9: no index with an empty hash list is ever written, every index
\* written belongs to a span with chunks, and for a span whose content is
\* blank (and so chunks to the empty sequence) no PutObject is issued at
\* all, for a blob or for an index.
C9_NoEmptyIndex ==
    /\ \A d \in indexPuts : Len(d.hashes) > 0 /\ ChunksOf(SpanByID(d.span_id)) # <<>>
    /\ \A key \in DOMAIN indexes : Len(indexes[key].hashes) > 0
    /\ \A span \in AllSpans :
           Blank(span.Content, cfg.ChunkSeparator) =>
               /\ ChunksOf(span) = <<>>
               /\ span.SpanID \notin putSpans
               /\ \A d \in indexPuts : d.span_id # span.SpanID

\* C9 witness: a worker went through the file with the blank span, past it
C9_Witness ==
    /\ \E w \in Workers : "f1" \in wk[w].processed
    /\ \E span \in AllSpans : Blank(span.Content, cfg.ChunkSeparator)
    /\ indexPuts # {}

\* C10: an index lies at the key made of its trace id alone, and it is
\* exactly the index of the span that wrote it last: that span's id and
\* that span's digests, nothing of an earlier span of the trace.
C10_IndexOverwrite ==
    /\ DOMAIN indexes = DOMAIN lastIndexSpan
    /\ \A key \in DOMAIN indexes :
           LET span == SpanByID(lastIndexSpan[key])
           IN  /\ key = IndexKey(cfg.IndexesPath, span.TraceID)
               /\ indexes[key] = [trace_id |-> span.TraceID, span_id |-> span.SpanID,
                                  hashes |-> DigestsOf(span)]

\* C10 witness: S1 wrote the index of T1, then S2 of the same trace did
C10_Witness ==
    /\ \E d \in indexPuts : d.span_id = "S1"
    /\ \E key \in DOMAIN lastIndexSpan :
           /\ lastIndexSpan[key] = "S2"
           /\ indexes[key].span_id = "S2"
           /\ indexes[key].trace_id = "T1"

\* the index entry of the span's trace was last written by the span, and it
\* lists the digest of chunk c
ListedBy(span, c) ==
    LET key == IndexKey(cfg.IndexesPath, span.TraceID)
    IN  /\ key \in DOMAIN indexes
        /\ indexes[key].span_id = span.SpanID
        /\ hashChunk(c) \in Range(indexes[key].hashes)

\* C11 (as claimed): once two different spans with a common chunk both had
\* their index written, one blob holds the chunk and two different index
\* entries, one per span, list its digest.
C11_TwoIndexEntriesAsClaimed ==
    \A s1 \in AllSpans, s2 \in AllSpans :
        (s1 # s2 /\ {s1.SpanID, s2.SpanID} \subseteq IndexedSpans)
            => \A c \in Range(ChunksOf(s1)) \cap Range(ChunksOf(s2)) :
                   /\ Cardinality(BlobsOf(c)) = 1
                   /\ ListedBy(s1, c)
                   /\ ListedBy(s2, c)

\* C11: the same chunk stored from two spans of different traces is held by
\* exactly one blob, at the key of its digest; the two traces have two
\* different index entries; and as long as each span is the last writer of
\* its trace's entry, both entries list the digest of the chunk.  (Spans of
\* one trace share one entry, which the later span overwrites.)
C11_SharedBlobTwoIndexes ==
    \A s1 \in AllSpans, s2 \in AllSpans :
        (s1.TraceID # s2.TraceID /\ {s1.SpanID, s2.SpanID} \subseteq IndexedSpans)
            => \A c \in Range(ChunksOf(s1)) \cap Range(ChunksOf(s2)) :
                   /\ BlobsOf(c) = {WorkerBlobKey(c)}
                   /\ \E k1 \in DOMAIN indexes, k2 \in DOMAIN indexes :
                          /\ k1 # k2
                          /\ indexes[k1].trace_id = s1.TraceID
                          /\ indexes[k2].trace_id = s2.TraceID
                   /\ (/\ Count(lastIndexSpan, IndexKey(cfg.IndexesPath, s1.TraceID)) = s1.SpanID
                       /\ Count(lastIndexSpan, IndexKey(cfg.IndexesPath, s2.TraceID)) = s2.SpanID)
                          => ListedBy(s1, c) /\ ListedBy(s2, c)

\* C11 witness: S1 of trace T1 and S4 of trace T3 both stored the chunk "a"
\* and are the last writers of their entries; the blob was written once
C11_Witness ==
    /\ cfg = DefaultConfig
    /\ ListedBy(SpanByID("S1"), <<97>>)
    /\ ListedBy(SpanByID("S4"), <<97>>)
    /\ Count(blobPuts, <<WorkerBlobKey(<<97>>), compressChunk(<<97>>)>>) = 1
    /\ storeOps[<<97>>] = 2

\* C12: a reconstruction whose trace has no index at the tool's key fails at
\* step 1 with the index error, and a run that failed at step 1 has issued
\* no GetObject on a blob key and produced no output.
C12_NoIndexNoFetch ==
    [][/\ (/\ rc.pc = "index"
           /\ ReconstructIndexKey(rc.trace) \notin DOMAIN indexes
           /\ rc' # rc)
          => /\ rc'.pc = "failed"
             /\ rc'.err = "download index"
             /\ rc'.cause = "failed to get index from S3"
       /\ rc'.err = "download index"
          => /\ rc'.pc = "failed"
             /\ rc'.fetches = 0
             /\ rc'.out = <<>>]_vars

\* C12 witness: trace T1 was asked for while the worker, configured with
\* other paths, had stored its blobs and its index elsewhere; nothing was
\* made to fail
C12_Witness ==
    /\ rc.pc = "failed"
    /\ rc.err = "download index"
    /\ rc.trace = "T1"
    /\ rc.fetches = 0
    /\ failures = 0
    /\ blobs # << >>
    /\ indexes # << >>

\* C13: when the blob of the next digest of the index is absent, the run
\* fails with the blob error naming that digest, after one GetObject for it
\* and none for any later digest of the index; a failed run does nothing
\* more.
C13_MissingBlobFails ==
    [][/\ (rc.pc = "blob" /\ RcKey \notin DOMAIN blobs /\ rc' # rc)
          => /\ rc'.pc = "failed"
             /\ rc'.err = "download blob"
             /\ rc'.cause = "failed to get blob from S3"
             /\ rc'.hash = RcHash
             /\ rc'.fetches = rc.fetches + 1
             /\ rc'.fetches = rc.i
             /\ rc'.i = rc.i
       /\ RcFailedIsFinal]_vars

\* C13 witness: the index lists two digests, the blob of the first is gone,
\* the blob of the second is there and was not asked for
C13_Witness ==
    /\ rc.pc = "failed"
    /\ rc.cause = "failed to get blob from S3"
    /\ Len(rc.index.Hashes) = 2
    /\ rc.hash = rc.index.Hashes[1]
    /\ rc.fetches = 1
    /\ ReconstructBlobKey(rc.index.Hashes[1]) \notin DOMAIN blobs
    /\ ReconstructBlobKey(rc.index.Hashes[2]) \in DOMAIN blobs

\* C14: when the blob of the next digest is there but is not a gzip member
\* in good order, the run fails with the blob error naming that digest and
\* wrapping a gzip error, and no later digest is fetched; no byte of the
\* damaged blob reaches the output.
C14_CorruptBlobFails ==
    [][/\ (/\ rc.pc = "blob"
           /\ RcKey \in DOMAIN blobs
           /\ ~Intact(blobs[RcKey])
           /\ rc' # rc)
          => /\ rc'.pc = "failed"
             /\ rc'.err = "download blob"
             /\ rc'.cause \in {"failed to create gzip reader", "failed to decompress blob",
                                "failed to get blob from S3"}
             /\ rc'.hash = RcHash
             /\ rc'.fetches = rc.i
             /\ rc'.out = rc.out
       /\ (rc'.cause \in {"failed to create gzip reader", "failed to decompress blob"}
              => rc'.pc = "failed")
       /\ RcFailedIsFinal]_vars

\* C14 witness: the first of two blobs was cut short, the run failed on its
\* trailer and left the second blob alone
C14_Witness ==
    /\ rc.pc = "failed"
    /\ rc.cause = "failed to decompress blob"
    /\ Len(rc.index.Hashes) = 2
    /\ rc.hash = rc.index.Hashes[1]
    /\ rc.fetches = 1
    /\ ReconstructBlobKey(rc.index.Hashes[2]) \in DOMAIN blobs
    /\ Intact(blobs[ReconstructBlobKey(rc.index.Hashes[2])])

\* C15: one worker, no failure.  The worker that is started again with an
\* empty processed set processes every file again; while it does the blob
\* store stays what the first run left, no blob is written a second time,
\* and when it is through, every index is what the first run left.
C15_ReprocessChangesNothing ==
    failures = 0 =>
        /\ wk["w1"].processed = Files
               => (blobs = SeqListing.blobs /\ indexes = SeqListing.indexes)
        /\ restarts > 0
               => /\ blobs = SeqListing.blobs
                  /\ DOMAIN indexes = DOMAIN SeqListing.indexes
                  /\ \A e \in DOMAIN blobPuts : blobPuts[e] = 1

\* C15 witness: after a restart the worker is through both files again,
\* every chunk went through a second store operation
C15_Witness ==
    /\ failures = 0
    /\ restarts = 1
    /\ wk["w1"].processed = Files
    /\ wk["w1"].pc = "wait"
    /\ \A c \in DOMAIN storeOps : storeOps[c] = 2
    /\ Cardinality(DOMAIN blobs) >= 2

\* the step is a failed S3 call of worker w inside a span: the existence
\* check, the blob write or the index write
SpanStepFails(w) ==
    /\ wk[w].pc \in {"head", "put", "index"}
    /\ failures' = failures + 1
    /\ wk'[w] # wk[w]

\* the spans after the current one, in the same file, that have chunks
LaterSpans(w) ==
    { s \in (wk[w].si + 1)..Len(Extracted(CurFile(w))) :
          ChunksOf(Extracted(CurFile(w))[s]) # <<>> }

\* C16: after a failed S3 call inside a span (the index write included) the
\* worker begins the next span of the same file that has chunks, at its
\* first chunk; after the last such span the file is done and marked
\* processed.  The failure ends neither the file nor the poll.
C16_SpanFailureIsolated ==
    [][\A w \in Workers :
          SpanStepFails(w) =>
              IF LaterSpans(w) # {}
              THEN /\ wk'[w].pc = "head"
                   /\ wk'[w].queue = wk[w].queue
                   /\ wk'[w].si \in LaterSpans(w)
                   /\ \A s \in LaterSpans(w) : wk'[w].si <= s
                   /\ wk'[w].ci = 1
                   /\ wk'[w].hashes = <<>>
              ELSE /\ CurFile(w) \in wk'[w].processed
                   /\ wk'[w].queue # wk[w].queue]_vars

\* C16 witness: span S1 of file f1 failed (its index was never written), the
\* later span S2 was processed and its index written, the file is marked
C16_Witness ==
    /\ failures = 1
    /\ "S1" \notin IndexedSpans
    /\ "S2" \in IndexedSpans
    /\ "S1" \in putSpans
    /\ \E w \in Workers : "f1" \in wk[w].processed
    /\ \A w \in Workers : wk[w].pc = "wait"

\* C17: Start returns only from its select with the context canceled, after
\* the first poll; the first thing a worker does is a poll; no failed call
\* (listing, download, existence check, blob or index write) takes the
\* worker out of the loop or costs it a poll; and a worker waiting for the
\* ticker, whatever failed before, polls again unless a signal comes first.
C17_LoopNeverAborts ==
    /\ [][\A w \in Workers :
             /\ (wk'[w].pc = "returned" /\ wk[w].pc # "returned")
                    => (Cancelled(w) /\ wk[w].pc = "wait" /\ wk[w].polls > 0)
             /\ (wk[w].polls = 0 /\ wk'[w].pc # wk[w].pc /\ wk'[w].pc # "exited")
                    => wk'[w].polls = 1
             /\ wk[w].polls = 0 => wk'[w].polls \in {0, 1}
             /\ (failures' # failures /\ wk'[w] # wk[w])
                    => /\ wk'[w].pc \in {"wait", "download", "head"}
                       /\ wk'[w].polls >= wk[w].polls
                       /\ wk[w].pc = "wait" => wk'[w].pc = "wait"]_vars
    /\ \A n \in 0..(MaxPolls - 1) :
           (wk["w1"].pc = "wait" /\ wk["w1"].polls = n /\ ~Cancelled("w1"))
               ~> (wk["w1"].polls > n \/ Cancelled("w1"))

\* C17 witness: something failed in the first poll, the context is live,
\* and the worker is in its second poll, at a file the first poll left
C17_Witness ==
    /\ failures = 1
    /\ ~Cancelled("w1")
    /\ wk["w1"].polls = 2
    /\ wk["w1"].pc = "head"
    /\ CurFile("w1") = "f1"

\* C18 (as claimed): with the context canceled while a file is being
\* processed, the calls of that file still go through (the existence check
\* answers, the blob and the index are written), and no further file is
\* begun.
C18_FinishFileAsClaimed ==
    [][\A w \in Workers :
          (Cancelled(w) /\ wk'[w] # wk[w] /\ wk'[w].pc # "exited")
              => /\ wk[w].pc = "head"
                    => (wk'[w].queue = wk[w].queue /\ wk'[w].si = wk[w].si)
                 /\ wk[w].pc = "put"
                    => WorkerBlobKey(CurChunk(w)) \in DOMAIN blobs'
                 /\ wk[w].pc = "index"
                    => /\ IndexKey(cfg.IndexesPath, CurSpan(w).TraceID) \in DOMAIN indexes'
                       /\ indexes'[IndexKey(cfg.IndexesPath, CurSpan(w).TraceID)].span_id
                              = CurSpan(w).SpanID
                 /\ wk[w].pc = "download"
                    => wk'[w].pc \in {"wait", "returned"}]_vars

\* the chunks of the span a worker record stands in
ChunksAt(me) == ChunksOf(Extracted(Head(me.queue))[me.si])

\* q is what is left of p after one or more of its first elements
IsLaterPart(q, p) ==
    \E n \in 1..Len(p) : q = SubSeq(p, n + 1, Len(p))

Stripped(seg) ==
    LET solid == { j \in 1..Len(seg) : ~IsSpace(seg[j]) }
    IN  IF solid = {}
        THEN <<>>
        ELSE SubSeq(seg, CHOOSE j \in solid : \A k \in solid : j <= k,
                         CHOOSE j \in solid : \A k \in solid : j >= k)

IsSolid(seg) == seg # <<>>

\* the content consists of separators only
OnlySeparators(content, separator) ==
    \E n \in 0..MaxLen : content = Join([k \in 1..(n + 1) |-> <<>>], separator)

\* C20: for every content and every (non-empty) separator, the result of
\* chunkContent is the sequence of the separator-delimited segments of the
\* content (they rejoin to the content with the separator, none holds a
\* separator), each stripped of white space at both ends, the empty ones
\* left out, in the order of the content; no chunk is empty or begins or
\* ends with white space; and empty content, or content of separators
\* only, gives the empty sequence.
C20_ChunkContentContract ==
    (call.fn = "chunkContent" /\ call.done) =>
        LET content == call.args[1]
            separator == call.args[2]
            segs == Split(content, separator)
            chunks == call.result
        IN  /\ Join(segs, separator) = content
            /\ \A k \in 1..Len(segs) : Index(segs[k], separator) = 0
            /\ chunks = SelectSeq([k \in 1..Len(segs) |-> Stripped(segs[k])], IsSolid)
            /\ \A i \in 1..Len(chunks) :
                   /\ chunks[i] # <<>>
                   /\ ~IsSpace(chunks[i][1])
                   /\ ~IsSpace(chunks[i][Len(chunks[i])])
            /\ (content = <<>> \/ OnlySeparators(content, separator)) => chunks = <<>>

\* C20 witness: "a\n\n " chunked on "\n": of the segments "a", "" and " "
\* the empty one and the blank one are left out
C20_Witness ==
    /\ call.done
    /\ call.args = << <<97, 10, 10, 32>>, <<10>> >>
    /\ call.result = << <<97>> >>

\* the segment holds a byte that is not white space
NotBlank(seg) == \E j \in 1..Len(seg) : ~IsSpace(seg[j])

\* s begins, or ends, with the separator
HasPrefix(s, sep) == Len(s) >= Len(sep) /\ SubSeq(s, 1, Len(sep)) = sep

HasSuffix(s, sep) == Len(s) >= Len(sep) /\ SubSeq(s, Len(s) - Len(sep) + 1, Len(s)) = sep

\* C21 (as claimed): the chunks of a non-empty text, rejoined with the
\* separator, are the text with its blank segments removed: the segments
\* that are not blank, as they stand in the text, joined by the separator.
C21_RejoinDropsBlanksAsClaimed ==
    (call.fn = "chunkContent" /\ call.done /\ call.args[1] # <<>>) =>
        Join(call.result, call.args[2])
            = Join(SelectSeq(Split(call.args[1], call.args[2]), NotBlank), call.args[2])

\* C21: the chunks of a non-empty text, rejoined with the separator, are
\* the segments of the text that are not blank, each stripped of the white
\* space at its ends, joined by the separator; the result neither begins
\* nor ends with the separator, and is empty exactly when every segment of
\* the text is blank.
C21_RejoinDropsBlanksAndTrims ==
    (call.fn = "chunkContent" /\ call.done /\ call.args[1] # <<>>) =>
        LET separator == call.args[2]
            segs == Split(call.args[1], separator)
            kept == SelectSeq(segs, NotBlank)
            rejoined == Join(call.result, separator)
        IN  /\ rejoined = Join([k \in 1..Len(kept) |-> Stripped(kept[k])], separator)
            /\ ~HasPrefix(rejoined, separator)
            /\ ~HasSuffix(rejoined, separator)
            /\ rejoined = <<>> <=> Blank(call.args[1], separator)

\* C21 witness: " a\n\n" chunked on "\n" and rejoined is "a": two blank
\* segments and the separators around them are gone, and so is the white
\* space before a
C21_Witness ==
    /\ call.done
    /\ call.args = << <<32, 97, 10, 10>>, <<10>> >>
    /\ Join(call.result, call.args[2]) = <<97>>


(***************************************************************************)
(* The extractor, read off the JSON payload itself.                        *)
(***************************************************************************)
\* the span objects of a document, in payload order
DocumentSpans(doc) ==
    Concat([r \in 1..Len(doc) |->
              Concat([c \in 1..Len(doc[r].scopeSpans) |-> doc[r].scopeSpans[c].spans])])

IsText(value) == value.t = "stringValue" /\ value.v # <<>>

IsBody(attribute) == attribute.key = JKey(<<"body">>) /\ IsText(attribute.value)

IsTextAttribute(attribute) ==
    /\ attribute.key.t = "string"
    /\ \/ attribute.key.v \in { <<"input.value">>, <<"output.value">> }
       \/ "message.content" \in Range(attribute.key.v)
    /\ IsText(attribute.value)

IsLLMEvent(event) ==
    /\ event.name \in { JString("llm.request"), JString("llm.response") }
    /\ event.attributes.t = "array"

\* the attributes of a span that carry a text fragment: those of its
\* llm.request/llm.response events, then its own; a field that is absent or
\* of the wrong type counts as not present
FragmentAttributes(span) ==
    (IF span.events.t = "array"
     THEN Concat([i \in 1..Len(span.events.v) |->
                    IF IsLLMEvent(span.events.v[i])
                    THEN SelectSeq(span.events.v[i].attributes.v, IsBody)
                    ELSE <<>>])
     ELSE <<>>)
    \o
    (IF span.attributes.t = "array"
     THEN SelectSeq(span.attributes.v, IsTextAttribute)
     ELSE <<>>)

Fragments(span) ==
    [i \in 1..Len(FragmentAttributes(span)) |-> FragmentAttributes(span)[i].value.v]

HasText(span) == FragmentAttributes(span) # <<>>

Parsed == call.fn = "ParseOTLPFile" /\ call.done

\* the spans with text of the payload that was parsed
TextSpans == SelectSeq(DocumentSpans(call.args[1].doc), HasText)

C23_ContentIsJoinedFragments ==
    (Parsed /\ call.result.ok) =>
        \A k \in 1..Len(call.result.results) :
            k <= Len(TextSpans) =>
                call.result.results[k].Content = Join(Fragments(TextSpans[k]), <<10>>)

\* two event bodies, then two attributes
C23_Witness ==
    /\ Parsed
    /\ call.result.ok
    /\ \E k \in 1..Len(call.result.results) :
          /\ Fragments(TextSpans[k]) = << <<97>>, <<98, 32>>, <<98>>, <<97, 10>> >>
          /\ call.result.results[k].Content = <<97, 10, 98, 32, 10, 98, 10, 97, 10>>

\* C24: parsing a gzip payload never fails, whatever fields of a span are
\* malformed or absent: the tuples of the spans with text are all emitted.
C24_MalformedSpanIsolated ==
    (Parsed /\ call.args[1].gzip) =>
        /\ call.result.ok
        /\ Len(call.result.results) = Len(TextSpans)
        /\ \A k \in 1..Len(TextSpans) :
              call.result.results[k].SpanID = TextSpans[k].spanId.v


LowerHex == {"0", "1", "2", "3", "4", "5", "6", "7", "8", "9", "a", "b", "c", "d", "e", "f"}

C26_SameBlobKeyAsClaimed ==
    \A key \in DOMAIN blobs :
        /\ key[1] = "blobs/"
        /\ key = ReconstructBlobKey(key[4])

\* C27: the tool exits 0, with the reconstructed text printed, only after
\* the index and every blob it lists were fetched and decompressed without
\* an error; when a fetch, the parse or a decompression fails it exits 1
\* and nothing of the text is printed, whatever was assembled before.
C27_OutputOnlyOnSuccess ==
    /\ rc.exit = "0" <=> rc.pc = "done"
    /\ rc.exit = "1" <=> rc.pc = "failed"
    /\ rc.pc = "done" =>
          /\ rc.stdout = <<rc.out>>
          /\ rc.err = ""
          /\ rc.fetches = Len(rc.index.Hashes)
          /\ rc.i = Len(rc.index.Hashes) + 1
    /\ rc.pc # "done" => rc.stdout = <<>>

\* the second blob of an index failed: the first chunk was assembled, is
\* not printed
C27_Witness ==
    /\ rc.pc = "failed"
    /\ rc.err = "download blob"
    /\ rc.fetches = 2
    /\ rc.out # <<>>
    /\ rc.stdout = <<>>
    /\ rc.exit = "1"


\* every digest of every stored index has its blob in the bucket, at the
\* worker's key for it
ReferentialIntegrity ==
    \A key \in DOMAIN indexes :
        \A i \in 1..Len(indexes[key].hashes) :
            getBlobKey(cfg.BlobsPath, indexes[key].hashes[i]) \in DOMAIN blobs

\* C28 (as claimed): every digest of every stored index has its blob in the
\* bucket, and a reconstruction of a stored index never comes to fetch a
\* blob that is not there.
C28_IntegrityAsClaimed ==
    /\ ReferentialIntegrity
    /\ rc.pc = "blob" => RcKey \in DOMAIN blobs


\* C29: every index a worker wrote lists one digest per chunk of its span,
\* the i-th digest that of the i-th chunk, a repeated chunk as often as it
\* occurs; and within a span a worker never comes to store a chunk that
\* occurred earlier in the span: the blob of a repeated chunk is written at
\* its first occurrence at most.
C29_OneDigestPerChunk ==
    /\ \A d \in indexPuts :
          LET chunks == ChunksOf(SpanByID(d.span_id))
          IN  /\ Len(d.hashes) = Len(chunks)
              /\ \A i \in 1..Len(chunks) : d.hashes[i] = hashChunk(chunks[i])
    /\ \A w \in Workers :
          wk[w].pc = "put" =>
              \A j \in 1..(wk[w].ci - 1) : CurChunks(w)[j] # CurChunk(w)

\* the span "a\na" was indexed: the digest of "a" twice, its blob put once
C29_Witness ==
    \E d \in indexPuts :
        /\ d.span_id = "S4"
        /\ Len(d.hashes) = 2
        /\ d.hashes[1] = d.hashes[2]
        /\ Count(blobPuts, <<WorkerBlobKey(<<97>>), compressChunk(<<97>>)>>) = 1


\* worker w is inside ProcessFile (at one of its S3 calls)
InFile(me) == me.pc \in {"download", "head", "put", "index"}

\* the place in the listing of the key the worker is at: 0 between polls,
\* past the end once the poll is over
Place(me, polling) ==
    IF InFile(me) THEN Len(Listing) - Len(me.queue) + 1
    ELSE IF polling THEN Len(Listing) + 1 ELSE 0

\* the step is the GetObject of worker w failing: ProcessFile returns an error
ProcessFileFails(w) ==
    /\ wk[w].pc = "download"
    /\ wk'[w] # wk[w]
    /\ failures' = failures + 1

\* the step is worker w's listing arriving
ListingArrives(w) ==
    /\ wk[w].pc = "wait"
    /\ wk'[w].polls = wk[w].polls + 1
    /\ failures' = failures

\* C30: in one run of a worker, (1) a key enters the processed set only in
\* the step in which its ProcessFile returns nil: it is the key at hand,
\* downloaded and parsed, and the worker leaves it; (2) a key in the set is
\* never the one handed to ProcessFile; (3) a key whose ProcessFile fails is
\* not marked; (4) in every poll whose listing arrives, no listed key is
\* passed over unless it is marked: an unmarked key is tried again.
C30_ProcessedSetDiscipline ==
    [][\A w \in Workers :
         /\ \A f \in Files :
               (f \notin wk[w].processed /\ f \in wk'[w].processed) =>
                   /\ InFile(wk[w])
                   /\ f = Head(wk[w].queue)
                   /\ f \in started'
                   /\ ~ProcessFileFails(w)
                   /\ InFile(wk'[w]) => Place(wk'[w], TRUE) > Place(wk[w], TRUE)
         /\ InFile(wk'[w]) => Head(wk'[w].queue) \notin wk'[w].processed
         /\ ProcessFileFails(w) =>
               /\ Head(wk[w].queue) \notin wk'[w].processed
               /\ wk'[w].processed = wk[w].processed
         /\ (ListingArrives(w) \/ (InFile(wk[w]) /\ wk'[w] # wk[w])) =>
               \A k \in (Place(wk[w], FALSE) + 1)..(Place(wk'[w], TRUE) - 1) :
                   Listing[k] \in wk'[w].processed
    ]_vars

\* f1 could not be downloaded in the first poll, f2 was processed; in the
\* second poll f1 is handed to ProcessFile again
C30_Witness ==
    /\ wk["w1"].polls = 2
    /\ wk["w1"].pc = "download"
    /\ Head(wk["w1"].queue) = "f1"
    /\ wk["w1"].processed = {"f2"}
    /\ restarts = 0
    /\ failures = 1

\* the step takes worker w out of the file it is in
LeavesFile(w) ==
    /\ InFile(wk[w])
    /\ wk'[w] # wk[w]
    /\ ~InFile(wk'[w]) \/ wk'[w].queue # wk[w].queue

\* the step writes an index of a span of file f
IndexWrittenFor(f) ==
    \E d \in indexPuts' \ indexPuts :
        \E k \in 1..Len(Extracted(f)) : Extracted(f)[k].SpanID = d.span_id

\* C31: once a file is downloaded and parsed, ProcessFile ends with nil
\* whatever happened to its spans: the step that takes the worker out of the
\* file marks it processed, a failing last span included.  A failed span
\* writes no index, and the worker that holds the file as processed writes
\* no index of its spans for the rest of its run.
C31_FailedSpansNotRetried ==
    [][\A w \in Workers :
         /\ (LeavesFile(w) /\ ~ProcessFileFails(w)) =>
               Head(wk[w].queue) \in wk'[w].processed
         /\ SpanStepFails(w) =>
               /\ indexes' = indexes
               /\ indexPuts' = indexPuts
               /\ LaterSpans(w) = {} => Head(wk[w].queue) \in wk'[w].processed
         /\ \A f \in Files :
               (wk'[w] # wk[w] /\ f \in wk[w].processed) => ~IndexWrittenFor(f)
    ]_vars

\* a chunk of S1 failed in the first poll; f1 was marked all the same, and
\* the second poll went by without an index of S1
C31_Witness ==
    /\ wk["w1"].polls = 2
    /\ wk["w1"].pc = "wait"
    /\ wk["w1"].processed = {"f1", "f2"}
    /\ restarts = 0
    /\ failures = 1
    /\ ChunksOf(SpanByID("S1")) # <<>>
    /\ \A d \in indexPuts : d.span_id # "S1"

\* the worker record stands in the same span of the same file as before
SameSpan(a, b) ==
    /\ b.pc \in {"head", "put", "index"}
    /\ b.queue = a.queue
    /\ b.si = a.si

\* C32: when the HeadObject or the PutObject of a chunk fails, the span is
\* over at once: the worker is no longer in the span, nothing is written in
\* the step (no index of the span, the index of its trace as it was), and
\* the blobs of the earlier chunks of the span are still in the bucket.
C32_ChunkFailureEndsSpan ==
    [][\A w \in Workers :
         ChunkStepFails(w) =>
             /\ ~SameSpan(wk[w], wk'[w])
             /\ indexes' = indexes
             /\ indexPuts' = indexPuts
             /\ lastIndexSpan' = lastIndexSpan
             /\ blobs' = blobs
             /\ \A j \in 1..(wk[w].ci - 1) :
                   WorkerBlobKey(CurChunks(w)[j]) \in DOMAIN blobs'
    ]_vars

\* the second chunk of S1 failed: the blob of the first is there, that of the
\* second is not, no index of S1, and the worker is at the next span
C32_Witness ==
    /\ cfg = DefaultConfig
    /\ wk["w2"] = IdleWorker
    /\ failures = 1
    /\ wk["w1"].polls = 1
    /\ wk["w1"].pc = "head"
    /\ wk["w1"].si = 2
    /\ WorkerBlobKey(<<97>>) \in DOMAIN blobs
    /\ WorkerBlobKey(<<98>>) \notin DOMAIN blobs
    /\ indexPuts = {}

\* C33: no step of a worker removes a blob or changes the bytes at a blob
\* key that was there (a second PUT of a key brings the same bytes); the
\* blob keys only grow; and a step changes no index but that of the trace
\* of the span the worker is in.
C33_SpanFrame ==
    [][/\ DOMAIN blobs \subseteq DOMAIN blobs'
       /\ \A key \in DOMAIN blobs : blobs'[key] = blobs[key]
       /\ DOMAIN indexes \subseteq DOMAIN indexes'
       /\ \A w \in Workers :
             wk'[w] # wk[w] =>
                 \A key \in DOMAIN indexes :
                     indexes'[key] # indexes[key] =>
                         /\ wk[w].pc = "index"
                         /\ key = IndexKey(cfg.IndexesPath, CurSpan(w).TraceID)
    ]_vars

\* a blob was put twice and holds the bytes of its chunk; the indexes of two
\* traces stand side by side
C33_Witness ==
    /\ \E e \in DOMAIN blobPuts : blobPuts[e] = 2 /\ blobs[e[1]] = e[2]
    /\ Cardinality(DOMAIN indexes) >= 2

(***************************************************************************)
(* The ingest filter: which spans of an export request become envelopes.   *)
(***************************************************************************)
\* the spans of a request, in order
SpansOfRequest(req) ==
    Concat([r \in 1..Len(req.resourceSpans) |->
        Concat([c \in 1..Len(req.resourceSpans[r].scopeSpans) |->
            req.resourceSpans[r].scopeSpans[c].spans])])

\* the span's openinference.span.kind: the text of the last attribute of
\* that key which has a text, "" when there is none
KindOf(span) ==
    LET at == { i \in 1..Len(span.attributes) :
                  /\ span.attributes[i].key = SpanKindKey
                  /\ attributeValueToString(span.attributes[i].value) # "" }
    IN  IF at = {}
        THEN ""
        ELSE attributeValueToString(
                 span.attributes[CHOOSE i \in at : \A j \in at : j <= i].value)

LacksKind(span) ==
    \A i \in 1..Len(span.attributes) : span.attributes[i].key # SpanKindKey

\* the filter's rule as configured: the name is one of SpanNames, and the
\* kind is one of SpanKinds unless no kinds are configured
Passes(c, span) ==
    /\ span.name \in Range(c.SpanNames)
    /\ c.SpanKinds = <<>> \/ KindOf(span) \in Range(c.SpanKinds)

ConvertDone == call.fn = "convertOTLPToEnvelopes" /\ call.done

ServeDone == call.fn = "ServeHTTP" /\ call.done

\* the request as its sender compressed it: declared gzip, the body a gzip
\* member of wire data that the path's handler decodes
GzipOf(r) == Gunzip(r.body).content

IsGzipRequest(r) ==
    /\ r.contentEncoding = "gzip"
    /\ Gunzip(r.body).ok
    /\ r.path = "/v1/traces" => UnmarshalTraces(GzipOf(r)).ok
    /\ r.path = "/v1/metrics" => UnmarshalMetrics(GzipOf(r)).ok

\* C35: a POST to /v1/traces or /v1/metrics with a gzip body
\* (Content-Encoding: gzip) is decompressed before OTLP decoding: the answer
\* is 202 Accepted, the one the decompressed bytes sent plain would get.
C35_GzipBodyAccepted ==
    (ServeDone /\ IsGzipRequest(call.args[1])) =>
        /\ call.result.status = 202
        /\ call.result = ServeHTTP(NewHandler,
                                   [call.args[1] EXCEPT !.body = GzipOf(call.args[1]),
                                                        !.contentEncoding = ""])

(***************************************************************************)
(* blobExists: how the result of HeadObject is read.                       *)
(***************************************************************************)
BlobExistsDone == call.fn = "blobExists" /\ call.done

\* the text has the word somewhere in it
HasWord(text, word) ==
    \E i \in 0..Len(text) :
        /\ i + Len(word) <= Len(text)
        /\ \A k \in 1..Len(word) : text[i + k] = word[k]

SaysNotFound(head) ==
    ~head.ok /\ (HasWord(head.text, NotFoundText) \/ HasWord(head.text, Text404))

\* C36: blobExists reports absent (false, no error) exactly when HeadObject
\* fails with an error whose text contains "NotFound" or "404", present
\* exactly when HeadObject succeeds, and returns every other error as it
\* is; processSpanContent then returns without storing the chunk's blob, and
\* stores it exactly when the blob is reported absent.
C36_BlobExistsReadsHead ==
    BlobExistsDone =>
        LET head == call.args[1]
            r == call.result
        IN  /\ (~r.exists /\ ~r.failed) <=> SaysNotFound(head)
            /\ (r.exists /\ ~r.failed) <=> head.ok
            /\ r.failed <=> (~head.ok /\ ~SaysNotFound(head))
            /\ r.failed => (r.err = head.text /\ ~r.exists /\ r.next = "return")
            /\ r.next = "storeBlob" <=> SaysNotFound(head)
            /\ r.next = "continue" <=> head.ok

\* an error that has "404" in its text and not "NotFound": read as absent,
\* the blob is stored
C36_Witness ==
    /\ BlobExistsDone
    /\ ~call.args[1].ok
    /\ HasWord(call.args[1].text, Text404)
    /\ ~HasWord(call.args[1].text, NotFoundText)
    /\ call.result.next = "storeBlob"

====
